---- MODULE Spec2Model ----
(***************************************************************************)
(* Verification model of webcrawler-go: the concurrent crawl engine of     *)
(* internal/crawler/crawler.go (frontier, fetch/classify/retry, blocked    *)
(* queue and retry passes) and the admission gates of the page capture     *)
(* engine (internal/crawler/pdfcapture.go) and of the sitemap engine       *)
(* (internal/crawler/sitemap.go).                                          *)
(*                                                                         *)
(* A URL string is represented by its url.URL components.  A path is the   *)
(* path string split at "/": "" is <<>>, "/" is <<"", "">>, "/x" is        *)
(* <<"", "x">>, "other" is <<"other">>.  A query is the set of its         *)
(* key=value pairs.                                                        *)
(***************************************************************************)
EXTENDS Integers, Sequences, FiniteSets, TLC

(***************************************************************************)
(* Bounds of the model: the configuration of the modelled runs.             *)
(***************************************************************************)
MaxConcurrency == 2
MaxRetries == 1
BlockedRetryPasses == 2

(***************************************************************************)
(* net/url                                                                 *)
(***************************************************************************)
MkURL(scheme, host, path, query, frag) ==
    [scheme |-> scheme, host |-> host, path |-> path, query |-> query, frag |-> frag]

DropLast(s) == IF s = <<>> THEN <<>> ELSE SubSeq(s, 1, Len(s) - 1)

\* net/url resolvePath (dot segments do not occur in the modelled sites)
resolvePath(base, ref) ==
    LET full == IF ref = <<>> THEN base
                ELSE IF ref[1] # "" THEN DropLast(base) \o ref
                ELSE ref
    IN  IF full = <<>> THEN <<>>
        ELSE IF full[1] = "" THEN full
        ELSE <<"">> \o full

\* (*URL).ResolveReference
ResolveReference(u, ref) ==
    IF ref.scheme # "" \/ ref.host # ""
    THEN MkURL(IF ref.scheme = "" THEN u.scheme ELSE ref.scheme, ref.host,
               resolvePath(ref.path, <<>>), ref.query, ref.frag)
    ELSE MkURL(u.scheme, u.host, resolvePath(u.path, ref.path),
               IF ref.path = <<>> /\ ref.query = {} THEN u.query ELSE ref.query,
               IF ref.path = <<>> /\ ref.query = {} /\ ref.frag = "" THEN u.frag ELSE ref.frag)

(***************************************************************************)
(* The crawled site of the search engine runs: example.test.               *)
(***************************************************************************)
Host == "example.test"
Abs(path, query, frag) == MkURL("https", Host, path, query, frag)
Ref(path, query, frag) == MkURL("", "", path, query, frag)

StartURL == Abs(<<"", "">>, {}, "")
AltURL == Abs(<<"", "alt">>, {}, "")
ExternalURL == MkURL("https", "other.test", <<"", "c">>, {}, "")

\* The sites a run is checked on.  "fragments": the start page links to an
\* external page and to /x under two fragments, /x links to itself.  "entry":
\* the start page has no links and the alternative entry page /alt links to it.
Sites == {"fragments", "entry"}

\* the schemes extractInternalLinks follows
SchemeFollowed(u) == u.scheme \in {"", "http", "https"}

\* "nested", the site of SpecNested: the start page links to /dir/page and to
\* /contact; /dir/page has the relative link "other"; the links of /contact
\* are a mailto:, a tel: and a javascript: link and the fragment-only "#top".
\* url.Parse keeps what follows the scheme of these in Opaque, which
\* ResolveReference and the host check do not read.
MailtoHref == MkURL("mailto", "", << >>, {}, "")
TelHref == MkURL("tel", "", << >>, {}, "")
JavascriptHref == MkURL("javascript", "", << >>, {}, "")

\* the <a href> values of the page served at a path, in document order
Hrefs(s, path) ==
    CASE s = "fragments" /\ path = <<"", "">> ->
            << ExternalURL, Ref(<<"", "x">>, {}, "frag1"), Ref(<<"", "x">>, {}, "frag2") >>
      [] s = "fragments" /\ path = <<"", "x">> ->
            << Ref(<<"", "x">>, {}, "frag1") >>
      [] s = "entry" /\ path = <<"", "alt">> ->
            << Ref(<<"", "">>, {}, "") >>
      [] s = "nested" /\ path = <<"", "">> ->
            << Ref(<<"", "dir", "page">>, {}, ""), Ref(<<"", "contact">>, {}, "") >>
      [] s = "nested" /\ path = <<"", "dir", "page">> ->
            << Ref(<<"other">>, {}, "") >>
      [] s = "nested" /\ path = <<"", "contact">> ->
            << MailtoHref, TelHref, JavascriptHref, Ref(<< >>, {}, "top") >>
      [] OTHER -> << >>

SitePaths == { <<"", "">>, <<"", "x">>, <<"", "alt">>, <<"", "dir", "page">>,
               <<"", "contact">> }

\* the sites of every specification
AllSites == Sites \cup {"nested"}

\* every URL the crawl can name: the seeds and what the links of the site
\* resolve to, the external one included
URLS ==
    {StartURL, AltURL} \cup
    { ResolveReference(StartURL, Hrefs(t[1], t[2])[t[3]]) :
        t \in { w \in AllSites \X SitePaths \X (1..4) :
                  w[3] <= Len(Hrefs(w[1], w[2])) /\ SchemeFollowed(Hrefs(w[1], w[2])[w[3]]) } }

(***************************************************************************)
(* HTTP responses.  A body is the set of phrases that occur in it;         *)
(* strings.Contains(body, s) is membership of s.                           *)
(***************************************************************************)
Target == "needle"

Resp(neterr, status, ctype, gzip, readErr, body) ==
    [neterr |-> neterr, status |-> status, ctype |-> ctype, gzip |-> gzip,
     readErr |-> readErr, body |-> body]

NoResp == Resp("", 0, "", "none", FALSE, {})
RespOK == Resp("", 200, "text/html", "none", FALSE, {"hello", Target})
RespChallenge == Resp("", 200, "text/html", "none", FALSE,
                      {"Checking Your Browser", Target})
Resp403 == Resp("", 403, "text/html", "none", FALSE, {"Forbidden"})
Resp404 == Resp("", 404, "text/html", "none", FALSE, {"Not Found"})
RespDNS == Resp("no such host", 0, "", "none", FALSE, {})

\* what the server may answer to a request for a path
ServerResponses(path) ==
    CASE path = <<"", "">>    -> {RespOK, Resp403, RespChallenge, Resp404}
      [] path = <<"", "x">>   -> {RespOK, Resp403, RespDNS}
      [] path = <<"", "alt">> -> {RespOK, Resp404}
      [] path = <<"", "dir", "page">> -> {RespOK}
      [] path = <<"", "contact">> -> {RespOK}
      [] OTHER                -> {Resp404}

\* strings.ToLower on the phrases of the modelled bodies
ToLower(phrase) ==
    CASE phrase = "Checking Your Browser" -> "checking your browser"
      [] phrase = "CHECKING YOUR BROWSER" -> "checking your browser"
      [] phrase = "Cloudflare"            -> "cloudflare"
      [] phrase = "Ray ID"                -> "ray id"
      [] phrase = "Forbidden"             -> "forbidden"
      [] phrase = "Not Found"             -> "not found"
      [] OTHER                            -> phrase

indicators ==
    { "checking your browser", "ddos protection", "please enable javascript",
      "access denied", "security check", "verify you are human", "captcha",
      "incapsula", "perimeterx", "sucuri", "cloudflare",
      "please wait while we verify", "just a moment", "ray id",
      "attention required", "sorry, you have been blocked" }

detectBotProtection_CaseSensitive(body) ==
    \E indicator \in indicators : indicator \in body

detectBotProtection(body) ==
    LET bodyLower == { ToLower(p) : p \in body }
    IN  \E indicator \in indicators : indicator \in bodyLower

(***************************************************************************)
(* Errors: fmt.Errorf values as message and code.                          *)
(***************************************************************************)
Err(msg, code) == [msg |-> msg, code |-> code]
NoErr == Err("", 0)

fetchPage_BodyBeforeStatus(r) ==
    IF r.neterr # "" THEN [success |-> FALSE, blocked |-> FALSE, err |-> Err(r.neterr, 0)]
    ELSE IF r.status = 403 \/ r.status = 503
    THEN [success |-> FALSE, blocked |-> TRUE, err |-> Err("blocked", r.status)]
    ELSE IF r.status = 429
    THEN [success |-> FALSE, blocked |-> TRUE, err |-> Err("rate limited", 0)]
    ELSE IF detectBotProtection(r.body)
    THEN [success |-> FALSE, blocked |-> TRUE, err |-> Err("bot protection detected", 0)]
    ELSE IF r.status >= 400
    THEN [success |-> FALSE, blocked |-> FALSE, err |-> Err("status", r.status)]
    ELSE [success |-> TRUE, blocked |-> FALSE, err |-> NoErr]

\* the (success, blocked, err) triple fetchPage returns for a response
fetchPage(r) ==
    IF r.neterr # "" THEN [success |-> FALSE, blocked |-> FALSE, err |-> Err(r.neterr, 0)]
    ELSE IF r.status = 403 \/ r.status = 503
    THEN [success |-> FALSE, blocked |-> TRUE, err |-> Err("blocked", r.status)]
    ELSE IF r.status = 429
    THEN [success |-> FALSE, blocked |-> TRUE, err |-> Err("rate limited", 0)]
    ELSE IF r.status >= 400
    THEN [success |-> FALSE, blocked |-> FALSE, err |-> Err("status", r.status)]
    ELSE IF r.gzip = "bad"
    THEN [success |-> FALSE, blocked |-> FALSE, err |-> Err("gzip: invalid header", 0)]
    ELSE IF r.readErr
    THEN [success |-> FALSE, blocked |-> FALSE, err |-> Err("unexpected EOF", 0)]
    ELSE IF detectBotProtection(r.body)
    THEN [success |-> FALSE, blocked |-> TRUE, err |-> Err("bot protection detected", 0)]
    ELSE [success |-> TRUE, blocked |-> FALSE, err |-> NoErr]

\* what fetchPageForRetry does with a response: "ok", "requeue" (stored back
\* into the blocked queue) or "drop" (returns false without storing)
fetchPageForRetry(r) ==
    IF r.neterr # "" THEN "drop"
    ELSE IF r.status >= 400
    THEN IF r.status = 403 \/ r.status = 503 \/ r.status = 429 THEN "requeue" ELSE "drop"
    ELSE IF r.gzip = "bad" \/ r.readErr THEN "drop"
    ELSE IF detectBotProtection(r.body) THEN "requeue"
    ELSE "ok"

\* processSearchMode on an HTML body: one result row per page that holds the target
SearchMatches(r) == IF r.ctype = "text/html" /\ Target \in r.body THEN 1 ELSE 0

IsHTML(r) == r.ctype = "text/html"

(***************************************************************************)
(* sync.Map blockedQueue: a set of BlockedPage values, one per key.        *)
(***************************************************************************)
BlockedPage(url, attempts, lastError) ==
    [URL |-> url, Attempts |-> attempts, LastError |-> lastError]
Keys(q) == { p.URL : p \in q }
Delete(q, url) == { p \in q : p.URL # url }
Store(q, page) == Delete(q, page.URL) \cup {page}
Load(q, url) == CHOOSE p \in q : p.URL = url


(***************************************************************************)
(* State of a search run (package variables of crawler.go).                *)
(***************************************************************************)
VARIABLES
    site,           \* the site the run crawls
    config,         \* Config: AltEntryPoints, RetryBlockedPages, BlockedRetryPasses, MaxRetries
    visited,        \* sync.Map visited: the set of its keys
    blockedQueue,   \* sync.Map blockedQueue
    sema,           \* number of elements in the channel sema
    wg,             \* counter of the WaitGroup wg
    stats,          \* Stats
    successfulHit,
    mainPC,         \* position of Start
    entryIdx,       \* index of the range over AltEntryPoints in Start
    pass,           \* the variable pass of Start
    rangeMust,      \* keys blockedQueue.Range still has to visit
    rangeSeen,      \* keys blockedQueue.Range has visited
    ctask,          \* goroutines spawned by crawl, by link and instance
    rtask,          \* goroutines spawned by retryBlockedPages, by link
    admitted,       \* history: number of admissions by crawl, by link
    retried,        \* history: number of retry goroutines spawned, by link
    retryFailed,    \* history: number of failed fetchPageForRetry calls, by link
    resultFile      \* the rows of the CSV result file: how many there are for a pageURL

searchVars == << site, config, visited, blockedQueue, sema, wg, stats, successfulHit,
                 mainPC, entryIdx, pass, rangeMust, rangeSeen, ctask, rtask, admitted,
                 retried, retryFailed, resultFile >>

(***************************************************************************)
(* State of a page capture run (package variables of pdfcapture.go) and of *)
(* a sitemap run (package variables of sitemap.go).                        *)
(***************************************************************************)
VARIABLES
    cfg,             \* the Config the run was started with: Mode, IgnoreQueryParams, PathFilter
    enginePC,        \* position of StartPDFCapture or StartSitemapGeneration
    cancelRequested,
    pdfVisited,      \* sync.Map pdfVisited: the set of its keys
    pdfStats,
    pdfTask,         \* goroutines spawned by crawlForPDF, by pageURL
    pdfSema,
    pdfWg,
    sitemapVisited,  \* sync.Map sitemapVisited: the set of its keys
    sitemapURLs,     \* sync.Map sitemapURLs: the set of its keys
    sitemapStats,
    sitemapTask,     \* goroutines spawned by crawlForSitemap, by normalizedURL
    sitemapSema,
    sitemapWG,
    sitemapResp      \* the response fetchForSitemap got for a URL, NoResp before it has one

(***************************************************************************)
(* State of the PDF text search (package parser): the two fixed paths in   *)
(* the file system and the calls of ContainsLinkInPDF under way.           *)
(***************************************************************************)
VARIABLES
    tmpPDF,          \* the file assets/tmp/tmp.pdf: NoFile or the PDF written to it
    outDir,          \* the directory assets/tmp/text: NoDir or the texts of its .txt files
    pdfSearch        \* the calls of ContainsLinkInPDF, by worker

parserVars == << tmpPDF, outDir, pdfSearch >>

pdfVars == << cancelRequested, pdfVisited, pdfStats, pdfTask, pdfSema, pdfWg >>
sitemapVars == << sitemapVisited, sitemapURLs, sitemapStats, sitemapTask, sitemapSema,
                  sitemapWG, sitemapResp >>
frontierVars == << cfg, enginePC, pdfVars, sitemapVars, parserVars >>

vars == << searchVars, frontierVars >>

baseURL == StartURL

\* the goroutines crawl has spawned for one link and that have not returned
\* are told apart by an instance number
Instances == {1, 2}

\* referer: the request of the attempt under way carries a Referer header
\* ua: the User-Agent header of that request
\* delay, waited: the last sleep of fetchWithRetry before an attempt and the sum
\* of its sleeps so far, in seconds
IdleTask ==
    [pc |-> "idle", attempt |-> 0, idx |-> 0, resp |-> NoResp, referer |-> FALSE, ua |-> "",
     delay |-> 0, waited |-> 0]
NewTask(attempt) ==
    [pc |-> "wait", attempt |-> attempt, idx |-> 0, resp |-> NoResp, referer |-> FALSE,
     ua |-> "", delay |-> 0, waited |-> 0]

\* the links a capture or sitemap run is offered: /a under two queries, bare
\* and under a fragment
PageA == Abs(<<"", "a">>, {}, "")
PageAx1 == Abs(<<"", "a">>, {<<"x", "1">>}, "")
PageAy2 == Abs(<<"", "a">>, {<<"y", "2">>}, "")
PageATop == Abs(<<"", "a">>, {}, "top")
PageLinks == {StartURL, PageA, PageAx1, PageAy2, PageATop}

\* the keys the visited maps of these runs can hold
PageKeys == { [l EXCEPT !.frag = ""] : l \in PageLinks }

\* a path with "/" appended unless it ends with one
WithSlash(path) ==
    IF path = << >> THEN <<"", "">>
    ELSE IF path[Len(path)] = "" THEN path
    ELSE path \o <<"">>

\* strings.HasPrefix(s, prefix) of a path and a prefix that ends with "/"
HasPrefix(s, prefix) ==
    /\ Len(prefix) <= Len(s)
    /\ SubSeq(s, 1, Len(prefix) - 1) = SubSeq(prefix, 1, Len(prefix) - 1)

\* the path filter main makes of a start URL with a path: the path, ending with "/"
FilterA == <<"", "a", "">>

\* the start URL of a capture or sitemap run: the filter, when there is one,
\* is the path of the start URL
FrontierStartURL ==
    IF cfg.PathFilter = << >> THEN StartURL
    ELSE IF cfg.PathFilter = FilterA THEN PageA
    ELSE Abs(cfg.PathFilter, {}, "")

\* package state before StartPDFCapture or StartSitemapGeneration has run
FrontierInit ==
    /\ enginePC = "start"
    /\ cancelRequested = 0
    /\ pdfVisited = {}
    /\ pdfStats = [PagesQueued |-> 0, PagesVisited |-> 0]
    /\ pdfTask = [u \in PageKeys |-> "idle"]
    /\ pdfSema = 0
    /\ pdfWg = 0
    /\ sitemapVisited = {}
    /\ sitemapURLs = {}
    /\ sitemapStats = [PagesFound |-> 0, PagesChecked |-> 0, ErrorCount |-> 0,
                       BlockedCount |-> 0, SkippedCount |-> 0]
    /\ sitemapTask = [u \in PageKeys |-> "idle"]
    /\ sitemapSema = 0
    /\ sitemapWG = 0
    /\ sitemapResp = [u \in PageKeys |-> NoResp]

\* a PDF document: whether pdfcpu can read it, and the phrases of its text
PDF(valid, text) == [valid |-> valid, text |-> text]
\* a path that holds no file, and a file by its content
NoFile == << >>
File(content) == << content >>
\* a path that holds no directory, and a directory by the contents of its files
NoDir == [exists |-> FALSE, files |-> {}]
Dir(files) == [exists |-> TRUE, files |-> files]
NoPDF == PDF(FALSE, {})

\* the workers that can be inside fetchPage at once
PDFWorkers == 1..MaxConcurrency

\* no call of ContainsLinkInPDF has been made
ParserInit ==
    /\ tmpPDF = NoFile
    /\ outDir = NoDir
    /\ pdfSearch = [w \in PDFWorkers |-> [pc |-> "idle", body |-> NoPDF, found |-> FALSE]]

\* package state of crawler.go before Start has run
SearchInit ==
    /\ visited = {}
    /\ blockedQueue = {}
    /\ sema = 0
    /\ wg = 0
    /\ stats = [PagesChecked |-> 0, PagesQueued |-> 0, MatchesFound |-> 0,
                ErrorCount |-> 0, BlockedCount |-> 0, RetryCount |-> 0,
                SkippedExternal |-> 0, BlockedRetried |-> 0, BlockedRecovered |-> 0]
    /\ successfulHit = FALSE
    /\ mainPC = "seed"
    /\ entryIdx = 1
    /\ pass = 0
    /\ rangeMust = {}
    /\ rangeSeen = {}
    /\ ctask = [u \in URLS |-> [k \in Instances |-> IdleTask]]
    /\ rtask = [u \in URLS |-> IdleTask]
    /\ admitted = [u \in URLS |-> 0]
    /\ retried = [u \in URLS |-> 0]
    /\ retryFailed = [u \in URLS |-> 0]
    /\ resultFile = [u \in URLS |-> 0]

Init ==
    /\ cfg = [Mode |-> "search", IgnoreQueryParams |-> FALSE, PathFilter |-> << >>]
    /\ FrontierInit
    /\ site \in Sites
    /\ config \in [AltEntryPoints : {<< >>, <<AltURL>>}, RetryBlockedPages : BOOLEAN,
                   BlockedRetryPasses : {BlockedRetryPasses}, MaxRetries : {MaxRetries}]
    /\ (site = "entry") = (config.AltEntryPoints # << >>)
    /\ SearchInit
    /\ ParserInit

(***************************************************************************)
(* crawl(link): visited.LoadOrStore is one atomic step of sync.Map; the    *)
(* counter, wg.Add and the go statement that follow it touch nothing       *)
(* another goroutine can observe in between, so crawl is one step of its   *)
(* caller.                                                                 *)
(***************************************************************************)
LoadOrStoreLoaded_Never(link) == FALSE

\* the "loaded" result of visited.LoadOrStore(link, true)
LoadOrStoreLoaded(link) == link \in visited

crawlCount(link) == IF LoadOrStoreLoaded(link) THEN 0 ELSE 1
\* the go statement of crawl: one more goroutine for the link
FreeInstance(tasks, link) ==
    CHOOSE k \in Instances :
        /\ tasks[link][k].pc = "idle"
        /\ \A j \in Instances : j < k => tasks[link][j].pc # "idle"
crawlSpawn(tasks, link) ==
    IF LoadOrStoreLoaded(link) THEN tasks
    ELSE [tasks EXCEPT ![link][FreeInstance(tasks, link)] = NewTask(0)]
crawlAdmitted(link) ==
    IF LoadOrStoreLoaded(link) THEN admitted ELSE [admitted EXCEPT ![link] = @ + 1]

Released_Leaks(slots) == slots

\* the deferred <-sema of a goroutine that returns
Released(slots) == slots - 1

SemaHasRoom_Unbounded == TRUE

SemaHasRoom_ZeroCapacity == sema < 0

\* a send on the buffered channel sema proceeds only while it is not full
SemaHasRoom == sema < MaxConcurrency

(***************************************************************************)
(* Start                                                                   *)
(***************************************************************************)
StartCrawlEntry ==
    /\ mainPC = "seed"
    /\ Len(config.AltEntryPoints) > 0
    /\ LET entryPoint == config.AltEntryPoints[entryIdx] IN
        /\ visited' = visited \cup {entryPoint}
        /\ stats' = [stats EXCEPT !.PagesQueued = @ + crawlCount(entryPoint)]
        /\ wg' = wg + crawlCount(entryPoint)
        /\ ctask' = crawlSpawn(ctask, entryPoint)
        /\ admitted' = crawlAdmitted(entryPoint)
    /\ entryIdx' = entryIdx + 1
    /\ mainPC' = IF entryIdx = Len(config.AltEntryPoints) THEN "preseed" ELSE "seed"
    /\ UNCHANGED frontierVars
    /\ UNCHANGED << site, config, blockedQueue, sema, successfulHit, pass, rangeMust,
                    rangeSeen, rtask, retried, retryFailed, resultFile >>

PreSeedPage_OneAttempt == BlockedPage(StartURL, 1, NoErr)

\* the entry Start stores for the start URL after the entry points are crawled
PreSeedPage == BlockedPage(StartURL, 0, NoErr)

StartPreSeed ==
    /\ mainPC = "preseed"
    /\ blockedQueue' = Store(blockedQueue, PreSeedPage)
    /\ mainPC' = "wait"
    /\ UNCHANGED frontierVars
    /\ UNCHANGED << site, config, visited, sema, wg, stats, successfulHit, entryIdx, pass,
                    rangeMust, rangeSeen, ctask, rtask, admitted, retried, retryFailed, resultFile >>

StartCrawlStartURL ==
    /\ mainPC = "seed"
    /\ Len(config.AltEntryPoints) = 0
    /\ visited' = visited \cup {StartURL}
    /\ stats' = [stats EXCEPT !.PagesQueued = @ + crawlCount(StartURL)]
    /\ wg' = wg + crawlCount(StartURL)
    /\ ctask' = crawlSpawn(ctask, StartURL)
    /\ admitted' = crawlAdmitted(StartURL)
    /\ mainPC' = "wait"
    /\ UNCHANGED frontierVars
    /\ UNCHANGED << site, config, blockedQueue, sema, successfulHit, entryIdx, pass,
                    rangeMust, rangeSeen, rtask, retried, retryFailed, resultFile >>

Drained_NoWait == TRUE

\* wg.Wait() returns: the counter of the wait group is zero
Drained == wg = 0

\* wg.Wait() after the seeds
WaitPrimary ==
    /\ mainPC = "wait"
    /\ Drained
    /\ mainPC' = "pass"
    /\ pass' = 1
    /\ UNCHANGED frontierVars
    /\ UNCHANGED << site, config, visited, blockedQueue, sema, wg, stats, successfulHit,
                    entryIdx, rangeMust, rangeSeen, ctask, rtask, admitted, retried,
                    retryFailed, resultFile >>

countBlockedQueue == Cardinality(Keys(blockedQueue))

\* head of the loop over passes, up to the call of retryBlockedPages
PassLoop ==
    /\ mainPC = "pass"
    /\ IF config.RetryBlockedPages /\ pass <= config.BlockedRetryPasses /\ countBlockedQueue # 0
       THEN /\ mainPC' = "range"
            /\ rangeMust' = Keys(blockedQueue)
            /\ rangeSeen' = {}
       ELSE /\ mainPC' = "done"
            /\ UNCHANGED << rangeMust, rangeSeen >>
    /\ UNCHANGED frontierVars
    /\ UNCHANGED << site, config, visited, blockedQueue, sema, wg, stats, successfulHit,
                    entryIdx, pass, ctask, rtask, admitted, retried, retryFailed, resultFile >>

Evicted_All(v, pageURL) == {}

\* visited.Delete(pageURL) of retryBlockedPages
Evicted(v, pageURL) == v \ {pageURL}

\* the guard of retryBlockedPages that skips an entry
RetrySkips(page) == page.Attempts >= config.BlockedRetryPasses

\* one call of the function retryBlockedPages passes to blockedQueue.Range.
\* Range visits no key twice; a key stored while it runs may or may not be visited.
RangeVisit(pageURL) ==
    /\ mainPC = "range"
    /\ pageURL \in Keys(blockedQueue) \ rangeSeen
    /\ rangeSeen' = rangeSeen \cup {pageURL}
    /\ rangeMust' = rangeMust \ {pageURL}
    /\ LET page == Load(blockedQueue, pageURL) IN
        IF RetrySkips(page)
        THEN UNCHANGED << visited, blockedQueue, wg, stats, rtask, retried >>
        ELSE /\ stats' = [stats EXCEPT !.BlockedRetried = @ + 1]
             /\ blockedQueue' = Delete(blockedQueue, pageURL)
             /\ visited' = Evicted(visited, pageURL)
             /\ wg' = wg + 1
             /\ rtask' = [rtask EXCEPT ![pageURL] = NewTask(page.Attempts + 1)]
             /\ retried' = [retried EXCEPT ![pageURL] = @ + 1]
    /\ UNCHANGED frontierVars
    /\ UNCHANGED << site, config, sema, successfulHit, mainPC, entryIdx, pass, ctask,
                    admitted, retryFailed, resultFile >>

\* blockedQueue.Range returns, then wg.Wait() of the pass
RangeReturn ==
    /\ mainPC = "range"
    /\ rangeMust = {}
    /\ mainPC' = "waitpass"
    /\ UNCHANGED frontierVars
    /\ UNCHANGED << site, config, visited, blockedQueue, sema, wg, stats, successfulHit,
                    entryIdx, pass, rangeMust, rangeSeen, ctask, rtask, admitted,
                    retried, retryFailed, resultFile >>

WaitPass ==
    /\ mainPC = "waitpass"
    /\ Drained
    /\ pass' = pass + 1
    /\ mainPC' = "pass"
    /\ UNCHANGED frontierVars
    /\ UNCHANGED << site, config, visited, blockedQueue, sema, wg, stats, successfulHit,
                    entryIdx, rangeMust, rangeSeen, ctask, rtask, admitted, retried,
                    retryFailed, resultFile >>


(***************************************************************************)
(* The goroutine of crawl: sema <- struct{}{}, fetchWithRetry, <-sema,     *)
(* wg.Done.  What follows the last shared access of fetchWithRetry (the    *)
(* return, the deferred release and wg.Done) is part of the same step.     *)
(***************************************************************************)
Acquire(link, k) ==
    /\ ctask[link][k].pc = "wait"
    /\ SemaHasRoom
    /\ sema' = sema + 1
    /\ ctask' = [ctask EXCEPT ![link][k].pc = "fetch"]
    /\ UNCHANGED frontierVars
    /\ UNCHANGED << site, config, visited, blockedQueue, wg, stats, successfulHit, mainPC,
                    entryIdx, pass, rangeMust, rangeSeen, rtask, admitted, retried,
                    retryFailed, resultFile >>

AttemptStats_StoresRetryCount(attempt) ==
    [stats EXCEPT !.RetryCount = attempt, !.PagesChecked = @ + 1]

\* the retry bookkeeping at the head of the loop of fetchWithRetry and the
\* counter at the head of fetchPage
AttemptStats(attempt) ==
    [stats EXCEPT !.RetryCount = @ + (IF attempt > 0 THEN 1 ELSE 0),
                  !.PagesChecked = @ + 1]

GivesUp_OneAttemptMore(attempt, err) == err.msg = "no such host" \/ attempt > config.MaxRetries

GivesUp_RetriesDNS(attempt, err) == attempt >= config.MaxRetries

GivesUp_AtOnce(attempt, err) == TRUE

\* fetchWithRetry leaves its loop after a retryable error
GivesUp(attempt, err) == err.msg = "no such host" \/ attempt >= config.MaxRetries

ErrorsCounted_PerAttempt(givesUp) == 1

\* ErrorCount is bumped after the loop, when lastErr is set
ErrorsCounted(givesUp) == IF givesUp THEN 1 ELSE 0

BlockedContinues(res) == FALSE

\* fetchWithRetry returns at once when fetchPage reports blocked
BlockedReturns(res) == res.blocked

NewBlockedPage_CountsAttempt(link, err) == BlockedPage(link, 1, err)

\* the entry fetchWithRetry stores for a blocked link
NewBlockedPage(link, err) == BlockedPage(link, 0, err)

\* var userAgents, each agent by its browser and platform
userAgents ==
    << "Chrome/Windows", "Safari/Mac", "Firefox/Windows", "Chrome/Linux", "Chrome/Mac" >>

\* userAgents[attempt%len(userAgents)] of fetchPage (Go slices count from 0)
primaryAgent(attempt) == userAgents[(attempt % Len(userAgents)) + 1]

\* userAgents[(retryAttempt+2)%len(userAgents)] of fetchPageForRetry
retryAgent(retryAttempt) == userAgents[((retryAttempt + 2) % Len(userAgents)) + 1]

Referer_Always(hadSuccess) == TRUE

\* fetchPage sets the Referer header of its request when successfulHit is set
Referer(hadSuccess) == hadSuccess

\* one attempt up to the return of httpClient.Do: the counters are bumped, the
\* request is built and the server's answer to it is in
Respond(link, k, r) ==
    /\ ctask[link][k].pc = "fetch"
    /\ stats' = AttemptStats(ctask[link][k].attempt)
    /\ ctask' = [ctask EXCEPT ![link][k].pc = "got", ![link][k].resp = r,
                              ![link][k].referer = Referer(successfulHit),
                              ![link][k].ua = primaryAgent(ctask[link][k].attempt)]
    /\ UNCHANGED frontierVars
    /\ UNCHANGED << site, config, visited, blockedQueue, sema, wg, successfulHit,
                    mainPC, entryIdx, pass, rangeMust, rangeSeen, rtask, admitted,
                    retried, retryFailed, resultFile >>

\* writeSearchResult appends one row for pageURL for each match of the page
writeSearchResult(pageURL, matches) == [resultFile EXCEPT ![pageURL] = @ + matches]

\* an attempt that succeeds: the mode handler has run, link extraction is next
FetchSuccess(link, k) ==
    /\ ctask[link][k].pc = "got"
    /\ fetchPage(ctask[link][k].resp).success
    /\ stats' = [stats EXCEPT !.MatchesFound = @ + SearchMatches(ctask[link][k].resp)]
    /\ resultFile' = writeSearchResult(link, SearchMatches(ctask[link][k].resp))
    /\ ctask' = [ctask EXCEPT ![link][k].pc = "links",
                              ![link][k].resp = NoResp,
                              ![link][k].referer = FALSE,
                              ![link][k].ua = "",
                              ![link][k].idx = IF IsHTML(ctask[link][k].resp) THEN 1
                                            ELSE Len(Hrefs(site, link.path)) + 1]
    /\ UNCHANGED frontierVars
    /\ UNCHANGED << site, config, visited, blockedQueue, sema, wg, successfulHit, mainPC,
                    entryIdx, pass, rangeMust, rangeSeen, rtask, admitted, retried,
                    retryFailed >>

\* an attempt classified blocked: stored in the blocked queue, no further attempt
FetchBlocked(link, k) ==
    /\ ctask[link][k].pc = "got"
    /\ ~fetchPage(ctask[link][k].resp).success
    /\ BlockedReturns(fetchPage(ctask[link][k].resp))
    /\ stats' = [stats EXCEPT !.BlockedCount = @ + 1]
    /\ blockedQueue' = Store(blockedQueue,
                             NewBlockedPage(link, fetchPage(ctask[link][k].resp).err))
    /\ sema' = Released(sema)
    /\ wg' = wg - 1
    /\ ctask' = [ctask EXCEPT ![link][k] = IdleTask]
    /\ UNCHANGED frontierVars
    /\ UNCHANGED << site, config, visited, successfulHit, mainPC, entryIdx, pass, rangeMust,
                    rangeSeen, rtask, admitted, retried, retryFailed, resultFile >>

\* RetryDelay of the Config main builds, in seconds
RetryDelay == 2

RECURSIVE Pow2(_)
Pow2(n) == IF n = 0 THEN 1 ELSE 2 * Pow2(n - 1)

Backoff_Exponential(attempt) == RetryDelay * Pow2(attempt - 1)

\* delay := config.RetryDelay * time.Duration(attempt), slept before attempt > 0
Backoff(attempt) == RetryDelay * attempt

\* an attempt that fails without being blocked: next attempt, or give up and count
FetchError(link, k) ==
    /\ ctask[link][k].pc = "got"
    /\ ~fetchPage(ctask[link][k].resp).success
    /\ ~BlockedReturns(fetchPage(ctask[link][k].resp))
    /\ IF GivesUp(ctask[link][k].attempt, fetchPage(ctask[link][k].resp).err)
       THEN /\ stats' = [stats EXCEPT
                            !.ErrorCount = @ + ErrorsCounted(TRUE),
                            !.BlockedCount = @ + (IF fetchPage(ctask[link][k].resp).blocked THEN 1 ELSE 0)]
            /\ sema' = Released(sema)
            /\ wg' = wg - 1
            /\ ctask' = [ctask EXCEPT ![link][k] = IdleTask]
       ELSE /\ stats' = [stats EXCEPT
                            !.ErrorCount = @ + ErrorsCounted(FALSE),
                            !.BlockedCount = @ + (IF fetchPage(ctask[link][k].resp).blocked THEN 1 ELSE 0)]
            /\ ctask' = [ctask EXCEPT ![link][k].pc = "fetch", ![link][k].attempt = @ + 1,
                                      ![link][k].resp = NoResp,
                                      ![link][k].referer = FALSE,
                                      ![link][k].ua = "",
                                      ![link][k].delay = Backoff(ctask[link][k].attempt + 1),
                                      ![link][k].waited =
                                          @ + Backoff(ctask[link][k].attempt + 1)]
            /\ UNCHANGED << sema, wg >>
    /\ UNCHANGED frontierVars
    /\ UNCHANGED << site, config, visited, blockedQueue, successfulHit, mainPC, entryIdx,
                    pass, rangeMust, rangeSeen, rtask, admitted, retried, retryFailed, resultFile >>

(***************************************************************************)
(* extractInternalLinks: one <a href> per step.                            *)
(***************************************************************************)
IsExternal_Never(nextURL) == FALSE

\* the host check of extractInternalLinks
IsExternal(nextURL) == nextURL.host # baseURL.host

\* the link an href is crawled as
NextLink(href) == ResolveReference(baseURL, href)

CrawlLink(link, k) ==
    /\ ctask[link][k].pc = "links"
    /\ ctask[link][k].idx <= Len(Hrefs(site, link.path))
    /\ LET href == Hrefs(site, link.path)[ctask[link][k].idx]
           next == NextLink(href)
           step == [ctask EXCEPT ![link][k].idx = @ + 1]
       IN  IF ~SchemeFollowed(href)
           THEN /\ ctask' = step
                /\ UNCHANGED << visited, wg, stats, admitted >>
           ELSE IF IsExternal(next)
           THEN /\ ctask' = step
                /\ stats' = [stats EXCEPT !.SkippedExternal = @ + 1]
                /\ UNCHANGED << visited, wg, admitted >>
           ELSE /\ visited' = visited \cup {next}
                /\ stats' = [stats EXCEPT !.PagesQueued = @ + crawlCount(next)]
                /\ wg' = wg + crawlCount(next)
                /\ ctask' = crawlSpawn(step, next)
                /\ admitted' = crawlAdmitted(next)
    /\ UNCHANGED frontierVars
    /\ UNCHANGED << site, config, blockedQueue, sema, successfulHit, mainPC, entryIdx, pass,
                    rangeMust, rangeSeen, rtask, retried, retryFailed, resultFile >>

\* fetchPage has returned success: fetchWithRetry sets successfulHit and returns
FinishSuccess(link, k) ==
    /\ ctask[link][k].pc = "links"
    /\ ctask[link][k].idx > Len(Hrefs(site, link.path))
    /\ successfulHit' = TRUE
    /\ sema' = Released(sema)
    /\ wg' = wg - 1
    /\ ctask' = [ctask EXCEPT ![link][k] = IdleTask]
    /\ UNCHANGED frontierVars
    /\ UNCHANGED << site, config, visited, blockedQueue, stats, mainPC, entryIdx, pass,
                    rangeMust, rangeSeen, rtask, admitted, retried, retryFailed, resultFile >>

(***************************************************************************)
(* The goroutine of retryBlockedPages: fetchPageForRetry(link, attemptNum).*)
(***************************************************************************)
AcquireRetry(link) ==
    /\ rtask[link].pc = "wait"
    /\ SemaHasRoom
    /\ sema' = sema + 1
    /\ rtask' = [rtask EXCEPT ![link].pc = "fetch"]
    /\ UNCHANGED frontierVars
    /\ UNCHANGED << site, config, visited, blockedQueue, wg, stats, successfulHit, mainPC,
                    entryIdx, pass, rangeMust, rangeSeen, ctask, admitted, retried,
                    retryFailed, resultFile >>

\* fetchPageForRetry up to the return of httpClient.Do; its request always
\* carries the Referer header
RetryRespond(link, r) ==
    /\ rtask[link].pc = "fetch"
    /\ stats' = [stats EXCEPT !.PagesChecked = @ + 1]
    /\ rtask' = [rtask EXCEPT ![link].pc = "got", ![link].resp = r,
                              ![link].referer = TRUE,
                              ![link].ua = retryAgent(rtask[link].attempt)]
    /\ UNCHANGED frontierVars
    /\ UNCHANGED << site, config, visited, blockedQueue, sema, wg, successfulHit,
                    mainPC, entryIdx, pass, rangeMust, rangeSeen, ctask, admitted,
                    retried, retryFailed, resultFile >>

RetryFetchOK(link) ==
    /\ rtask[link].pc = "got"
    /\ fetchPageForRetry(rtask[link].resp) = "ok"
    /\ stats' = [stats EXCEPT !.MatchesFound = @ + SearchMatches(rtask[link].resp)]
    /\ resultFile' = writeSearchResult(link, SearchMatches(rtask[link].resp))
    /\ rtask' = [rtask EXCEPT ![link].pc = "links",
                              ![link].resp = NoResp,
                              ![link].referer = FALSE,
                              ![link].ua = "",
                              ![link].idx = IF IsHTML(rtask[link].resp) THEN 1
                                            ELSE Len(Hrefs(site, link.path)) + 1]
    /\ UNCHANGED frontierVars
    /\ UNCHANGED << site, config, visited, blockedQueue, sema, wg, successfulHit, mainPC,
                    entryIdx, pass, rangeMust, rangeSeen, ctask, admitted, retried,
                    retryFailed >>

RequeuedPage_CountsTwice(link, retryAttempt) == BlockedPage(link, retryAttempt + 1, NoErr)

\* the entry fetchPageForRetry stores when the re-fetch is blocked again
RequeuedPage(link, retryAttempt) == BlockedPage(link, retryAttempt, NoErr)

RetryFetchFail(link) ==
    /\ rtask[link].pc = "got"
    /\ fetchPageForRetry(rtask[link].resp) # "ok"
    /\ blockedQueue' = IF fetchPageForRetry(rtask[link].resp) = "requeue"
                       THEN Store(blockedQueue, RequeuedPage(link, rtask[link].attempt))
                       ELSE blockedQueue
    /\ sema' = Released(sema)
    /\ wg' = wg - 1
    /\ rtask' = [rtask EXCEPT ![link] = IdleTask]
    /\ retryFailed' = [retryFailed EXCEPT ![link] = @ + 1]
    /\ UNCHANGED resultFile
    /\ UNCHANGED frontierVars
    /\ UNCHANGED << site, config, visited, stats, successfulHit, mainPC, entryIdx, pass,
                    rangeMust, rangeSeen, ctask, admitted, retried >>

RetryCrawlLink(link) ==
    /\ rtask[link].pc = "links"
    /\ rtask[link].idx <= Len(Hrefs(site, link.path))
    /\ LET href == Hrefs(site, link.path)[rtask[link].idx]
           next == NextLink(href)
       IN  /\ rtask' = [rtask EXCEPT ![link].idx = @ + 1]
           /\ IF ~SchemeFollowed(href)
              THEN UNCHANGED << visited, wg, stats, ctask, admitted >>
              ELSE IF IsExternal(next)
              THEN /\ stats' = [stats EXCEPT !.SkippedExternal = @ + 1]
                   /\ UNCHANGED << visited, wg, ctask, admitted >>
              ELSE /\ visited' = visited \cup {next}
                   /\ stats' = [stats EXCEPT !.PagesQueued = @ + crawlCount(next)]
                   /\ wg' = wg + crawlCount(next)
                   /\ ctask' = crawlSpawn(ctask, next)
                   /\ admitted' = crawlAdmitted(next)
    /\ UNCHANGED frontierVars
    /\ UNCHANGED << site, config, blockedQueue, sema, successfulHit, mainPC, entryIdx, pass,
                    rangeMust, rangeSeen, retried, retryFailed, resultFile >>

\* fetchPageForRetry stores the link as visited and returns true; the goroutine
\* counts the recovery
FinishRetry(link) ==
    /\ rtask[link].pc = "links"
    /\ rtask[link].idx > Len(Hrefs(site, link.path))
    /\ visited' = visited \cup {link}
    /\ stats' = [stats EXCEPT !.BlockedRecovered = @ + 1]
    /\ sema' = Released(sema)
    /\ wg' = wg - 1
    /\ rtask' = [rtask EXCEPT ![link] = IdleTask]
    /\ UNCHANGED frontierVars
    /\ UNCHANGED << site, config, blockedQueue, successfulHit, mainPC, entryIdx, pass,
                    rangeMust, rangeSeen, ctask, admitted, retried, retryFailed, resultFile >>

Next ==
    \/ StartCrawlEntry
    \/ StartPreSeed
    \/ StartCrawlStartURL
    \/ WaitPrimary
    \/ PassLoop
    \/ \E pageURL \in URLS : RangeVisit(pageURL)
    \/ RangeReturn
    \/ WaitPass
    \/ \E link \in URLS : \E k \in Instances : Acquire(link, k)
    \/ \E link \in URLS : \E k \in Instances : \E r \in ServerResponses(link.path) :
            Respond(link, k, r)
    \/ \E link \in URLS : \E k \in Instances : FetchSuccess(link, k)
    \/ \E link \in URLS : \E k \in Instances : FetchBlocked(link, k)
    \/ \E link \in URLS : \E k \in Instances : FetchError(link, k)
    \/ \E link \in URLS : \E k \in Instances : CrawlLink(link, k)
    \/ \E link \in URLS : \E k \in Instances : FinishSuccess(link, k)
    \/ \E link \in URLS : AcquireRetry(link)
    \/ \E link \in URLS : \E r \in ServerResponses(link.path) : RetryRespond(link, r)
    \/ \E link \in URLS : RetryFetchOK(link)
    \/ \E link \in URLS : RetryFetchFail(link)
    \/ \E link \in URLS : RetryCrawlLink(link)
    \/ \E link \in URLS : FinishRetry(link)

Spec == Init /\ [][Next]_vars

(***************************************************************************)
(* Page capture: crawlForPDF and the goroutine it spawns.  The links a     *)
(* capture returns are any of PageLinks.                                   *)
(***************************************************************************)
pdfIgnoreQueryParams == cfg.IgnoreQueryParams

\* normalizeURL: no fragment, no query when query parameters are ignored, "/"
\* for the empty path
normalizeURL(link) ==
    [link EXCEPT !.frag = "",
                 !.query = IF pdfIgnoreQueryParams THEN {} ELSE @,
                 !.path = IF @ = << >> THEN <<"", "">> ELSE @]

CancelSeen_Never == FALSE

\* atomic.LoadInt32(&cancelRequested) == 1
CancelSeen == cancelRequested = 1

\* listenForCancel is in its select loop: it returns once it has set the flag
Listening == cancelRequested = 0

\* one call of crawlForPDF, a step of its caller
crawlForPDF(link) ==
    IF CancelSeen \/ normalizeURL(link) \in pdfVisited
    THEN UNCHANGED << pdfVisited, pdfStats, pdfWg, pdfTask >>
    ELSE /\ pdfVisited' = pdfVisited \cup {normalizeURL(link)}
         /\ pdfStats' = [pdfStats EXCEPT !.PagesQueued = @ + 1]
         /\ pdfWg' = pdfWg + 1
         /\ pdfTask' = [pdfTask EXCEPT ![normalizeURL(link)] = "wait"]

StartPDFCapture ==
    /\ cfg.Mode = "pdf"
    /\ enginePC = "start"
    /\ crawlForPDF(FrontierStartURL)
    /\ enginePC' = "wait"
    /\ UNCHANGED << cfg, parserVars, cancelRequested, pdfSema, sitemapVars, searchVars >>

\* the user types "c": listenForCancel sets the flag and returns
listenForCancel ==
    /\ cfg.Mode = "pdf"
    /\ enginePC \in {"wait", "stopkeys"}
    /\ Listening
    /\ cancelRequested' = 1
    /\ UNCHANGED << cfg, parserVars, enginePC, pdfVisited, pdfStats, pdfTask, pdfSema, pdfWg,
                    sitemapVars, searchVars >>

\* the goroutine gets its slot: it returns at once after a cancel, else it
\* counts the page and captures it
PDFCapture(pageURL) ==
    /\ pdfTask[pageURL] = "wait"
    /\ pdfSema < MaxConcurrency
    /\ IF CancelSeen
       THEN /\ pdfTask' = [pdfTask EXCEPT ![pageURL] = "idle"]
            /\ pdfWg' = pdfWg - 1
            /\ UNCHANGED << pdfStats, pdfSema >>
       ELSE /\ pdfTask' = [pdfTask EXCEPT ![pageURL] = "run"]
            /\ pdfStats' = [pdfStats EXCEPT !.PagesVisited = @ + 1]
            /\ pdfSema' = pdfSema + 1
            /\ UNCHANGED pdfWg
    /\ UNCHANGED << cfg, parserVars, enginePC, cancelRequested, pdfVisited, sitemapVars, searchVars >>

pdfPathFilter == cfg.PathFilter

\* the path filter of capturePage keeps the link
capturePageKeeps(u) == pdfPathFilter = << >> \/ HasPrefix(u.path, pdfPathFilter)

\* the goroutine queues one of the links capturePage returned for its page
PDFCrawlLink(pageURL, nextLink) ==
    /\ pdfTask[pageURL] = "run"
    /\ capturePageKeeps(nextLink)
    /\ ~CancelSeen
    /\ crawlForPDF(nextLink)
    /\ UNCHANGED << cfg, parserVars, enginePC, cancelRequested, pdfSema, sitemapVars, searchVars >>

PDFReturn(pageURL) ==
    /\ pdfTask[pageURL] = "run"
    /\ pdfTask' = [pdfTask EXCEPT ![pageURL] = "idle"]
    /\ pdfSema' = pdfSema - 1
    /\ pdfWg' = pdfWg - 1
    /\ UNCHANGED << cfg, parserVars, enginePC, cancelRequested, pdfVisited, pdfStats, sitemapVars,
                    searchVars >>

\* pdfWg.Wait() returns and printPDFLiveStats, which selects on its stop
\* channel until then, receives stopStats <- true
PDFWait ==
    /\ cfg.Mode = "pdf"
    /\ enginePC = "wait"
    /\ pdfWg = 0
    /\ enginePC' = "stopkeys"
    /\ UNCHANGED << cfg, parserVars, pdfVars, sitemapVars, searchVars >>

\* stopKeyListener <- true: the send on the unbuffered channel proceeds when
\* listenForCancel receives it; printPDFFinalStats and the return follow
PDFStopKeyListener ==
    /\ cfg.Mode = "pdf"
    /\ enginePC = "stopkeys"
    /\ Listening
    /\ enginePC' = "done"
    /\ UNCHANGED << cfg, parserVars, pdfVars, sitemapVars, searchVars >>

(***************************************************************************)
(* Sitemap generation: crawlForSitemap and the goroutine it spawns.  The   *)
(* links extractLinksForSitemap follows are any of PageLinks.              *)
(***************************************************************************)
sitemapConfig == cfg

\* includeInSitemap of crawlForSitemap
IncludeInSitemap(path) ==
    \/ sitemapConfig.PathFilter = << >>
    \/ HasPrefix(WithSlash(path), WithSlash(sitemapConfig.PathFilter))

\* the key crawlForSitemap makes of a link: the fragment is cleared
SitemapNormalized(link) == [link EXCEPT !.frag = ""]

\* one call of crawlForSitemap, a step of its caller
crawlForSitemap(link) ==
    LET normalizedURL == SitemapNormalized(link) IN
    IF normalizedURL \in sitemapVisited
    THEN UNCHANGED << sitemapVisited, sitemapURLs, sitemapStats, sitemapWG, sitemapTask,
                      sitemapResp >>
    ELSE /\ sitemapVisited' = sitemapVisited \cup {normalizedURL}
         /\ sitemapURLs' = IF IncludeInSitemap(link.path)
                           THEN sitemapURLs \cup {normalizedURL} ELSE sitemapURLs
         /\ sitemapStats' =
              [sitemapStats EXCEPT
                 !.SkippedCount = @ + (IF IncludeInSitemap(link.path) THEN 0 ELSE 1),
                 !.PagesFound = @ + 1]
         /\ sitemapWG' = sitemapWG + 1
         /\ sitemapTask' = [sitemapTask EXCEPT ![normalizedURL] = "wait"]
         /\ UNCHANGED sitemapResp

StartSitemapGeneration ==
    /\ cfg.Mode = "sitemap"
    /\ enginePC = "start"
    /\ crawlForSitemap(FrontierStartURL)
    /\ enginePC' = "wait"
    /\ UNCHANGED << cfg, parserVars, sitemapSema, pdfVars, searchVars >>

challengePatterns ==
    { {"checking your browser", "please wait"}, {"just a moment", "enable javascript"},
      {"ddos protection", "please wait"}, {"attention required", "cloudflare"},
      {"sorry, you have been blocked"}, {"access denied", "you don't have permission"},
      {"verify you are human", "captcha"}, {"security check", "please complete"} }

\* detectSitemapBotProtection; the modelled bodies are shorter than 2000 bytes
detectSitemapBotProtection(body) ==
    LET bodyLower == { ToLower(p) : p \in body }
    IN  \/ \E pattern \in challengePatterns : pattern \subseteq bodyLower
        \/ "checking your browser" \in bodyLower
        \/ "please enable javascript and cookies" \in bodyLower

\* how fetchForSitemap ends for a response: "error", "blocked", "nothtml",
\* "unread" (the body cannot be read) or "follow"
fetchForSitemap(r) ==
    IF r.neterr # "" THEN "error"
    ELSE IF r.status = 403 \/ r.status = 503 \/ r.status = 429 THEN "blocked"
    ELSE IF r.status >= 400 THEN "error"
    ELSE IF ~IsHTML(r) THEN "nothtml"
    ELSE IF r.gzip = "bad" \/ r.readErr THEN "unread"
    ELSE IF detectSitemapBotProtection(r.body) THEN "blocked"
    ELSE "follow"

SitemapResponses == {RespOK, Resp403, Resp404}

\* the goroutine gets its slot and fetches the page; every outcome but
\* "follow" ends the goroutine
SitemapFetch(link, r) ==
    /\ sitemapTask[link] = "wait"
    /\ sitemapSema < MaxConcurrency
    /\ sitemapResp' = [sitemapResp EXCEPT ![link] = r]
    /\ sitemapStats' =
         [sitemapStats EXCEPT
            !.PagesChecked = @ + 1,
            !.ErrorCount = @ + (IF fetchForSitemap(r) = "error" THEN 1 ELSE 0),
            !.BlockedCount = @ + (IF fetchForSitemap(r) = "blocked" THEN 1 ELSE 0)]
    /\ sitemapURLs' = IF fetchForSitemap(r) \in {"error", "blocked", "nothtml"}
                         /\ IncludeInSitemap(link.path)
                      THEN sitemapURLs \ {link} ELSE sitemapURLs
    /\ IF fetchForSitemap(r) = "follow"
       THEN /\ sitemapTask' = [sitemapTask EXCEPT ![link] = "run"]
            /\ sitemapSema' = sitemapSema + 1
            /\ UNCHANGED sitemapWG
       ELSE /\ sitemapTask' = [sitemapTask EXCEPT ![link] = "idle"]
            /\ sitemapWG' = sitemapWG - 1
            /\ UNCHANGED sitemapSema
    /\ UNCHANGED << cfg, parserVars, enginePC, sitemapVisited, pdfVars, searchVars >>

\* the goroutine follows one of the links of its page
SitemapCrawlLink(link, nextLink) ==
    /\ sitemapTask[link] = "run"
    /\ crawlForSitemap(nextLink)
    /\ UNCHANGED << cfg, parserVars, enginePC, sitemapSema, pdfVars, searchVars >>

SitemapReturn(link) ==
    /\ sitemapTask[link] = "run"
    /\ sitemapTask' = [sitemapTask EXCEPT ![link] = "idle"]
    /\ sitemapSema' = sitemapSema - 1
    /\ sitemapWG' = sitemapWG - 1
    /\ UNCHANGED << cfg, parserVars, enginePC, sitemapVisited, sitemapURLs, sitemapStats,
                    sitemapResp, pdfVars, searchVars >>

\* sitemapWG.Wait() returns
SitemapWait ==
    /\ cfg.Mode = "sitemap"
    /\ enginePC = "wait"
    /\ sitemapWG = 0
    /\ enginePC' = "done"
    /\ UNCHANGED << cfg, parserVars, pdfVars, sitemapVars, searchVars >>

(***************************************************************************)
(* A page capture run or a sitemap run, with or without the option to      *)
(* ignore query parameters and with or without a path filter.              *)
(***************************************************************************)
InitFrontier ==
    /\ cfg \in [Mode : {"pdf", "sitemap"}, IgnoreQueryParams : BOOLEAN,
                PathFilter : {<< >>, FilterA}]
    /\ FrontierInit
    /\ site = "fragments"
    /\ config = [AltEntryPoints |-> << >>, RetryBlockedPages |-> TRUE,
                 BlockedRetryPasses |-> BlockedRetryPasses, MaxRetries |-> MaxRetries]
    /\ SearchInit
    /\ ParserInit

NextFrontier ==
    \/ StartPDFCapture
    \/ listenForCancel
    \/ \E pageURL \in PageKeys : PDFCapture(pageURL)
    \/ \E pageURL \in PageKeys : \E nextLink \in PageLinks : PDFCrawlLink(pageURL, nextLink)
    \/ \E pageURL \in PageKeys : PDFReturn(pageURL)
    \/ PDFWait
    \/ PDFStopKeyListener
    \/ StartSitemapGeneration
    \/ \E link \in PageKeys : \E r \in SitemapResponses : SitemapFetch(link, r)
    \/ \E link \in PageKeys : \E nextLink \in PageLinks : SitemapCrawlLink(link, nextLink)
    \/ \E link \in PageKeys : SitemapReturn(link)
    \/ SitemapWait

SpecFrontier == InitFrontier /\ [][NextFrontier]_vars

\* the Go scheduler runs every goroutine that can take a step
FairSpecFrontier == SpecFrontier /\ WF_vars(NextFrontier)

(***************************************************************************)
(* Properties of a search run.                                             *)
(***************************************************************************)
X1 == Abs(<<"", "x">>, {}, "frag1")
X2 == Abs(<<"", "x">>, {}, "frag2")

\* a goroutine that has sent on sema and not yet received from it
HoldsSlot(task) == task.pc \in {"fetch", "got", "links"}
SlotsHeld ==
    Cardinality({ t \in URLS \X Instances : HoldsSlot(ctask[t[1]][t[2]]) }) +
    Cardinality({ u \in URLS : HoldsSlot(rtask[u]) })
Running == Cardinality({ t \in URLS \X Instances : ctask[t[1]][t[2]].pc # "idle" }) +
           Cardinality({ u \in URLS : rtask[u].pc # "idle" })

PrimaryPhase == mainPC \in {"seed", "preseed", "wait"}

RECURSIVE SumOver(_, _)
SumOver(f, S) ==
    IF S = {} THEN 0 ELSE LET u == CHOOSE v \in S : TRUE IN f[u] + SumOver(f, S \ {u})

\* the channel and the WaitGroup count what they stand for
Accounting == sema = SlotsHeld /\ wg = Running

\* C1: in every reachable state the number of goroutines (spawned by crawl or by
\* retryBlockedPages) that hold a semaphore slot is at most MaxConcurrency.
C1_SlotsBounded == SlotsHeld <= MaxConcurrency /\ sema <= MaxConcurrency

\* every slot is held, one of them by a retry goroutine, and another goroutine waits
C1_Witness ==
    /\ SlotsHeld = MaxConcurrency
    /\ \E u \in URLS : HoldsSlot(rtask[u])
    /\ \E u \in URLS : rtask[u].pc = "wait" \/ ctask[u][1].pc = "wait"

\* C2: during the primary phase, whatever the interleaving of the crawl(link)
\* calls, a link that crawl was called with was admitted exactly once: it is in
\* visited, it was counted once in PagesQueued and one goroutine was spawned for
\* it; no other call spawned anything.
C2_AdmittedOnce ==
    PrimaryPhase =>
        /\ \A u \in URLS : admitted[u] = (IF u \in visited THEN 1 ELSE 0)
        /\ stats.PagesQueued = SumOver(admitted, URLS)
        /\ stats.PagesQueued = Cardinality(visited)
        /\ \A u \in URLS : ctask[u][1].pc # "idle" => admitted[u] = 1
        /\ \A u \in URLS : ctask[u][2].pc = "idle"

\* the goroutines of /x#frag1 and /x#frag2 have both called crawl on the link
\* of their page, /x#frag1, while the other was running
C2_Witness ==
    /\ PrimaryPhase
    /\ ctask[X1][1].pc = "links" /\ ctask[X1][1].idx = 2
    /\ ctask[X2][1].pc = "links" /\ ctask[X2][1].idx = 2
    /\ admitted[X1] = 1

\* C3: two admission calls whose URLs differ only in the fragment result in
\* exactly one admission (stated for /x#frag1 and /x#frag2 in the primary phase).
C3_FragmentVariantsAdmittedOnce ==
    PrimaryPhase => admitted[X1] + admitted[X2] <= 1

\* an attempt of the goroutine (link, k) of crawl has its response and the
\* step taken is the one that handles it
Handles(link, k) ==
    ctask[link][k].pc = "got" /\ ctask'[link][k] # ctask[link][k]

\* status 200 and a readable body that holds "checking your browser" in some case
ChallengeBody(r) ==
    /\ r.neterr = "" /\ r.status = 200 /\ r.gzip # "bad" /\ ~r.readErr
    /\ \E phrase \in r.body : ToLower(phrase) = "checking your browser"

\* C5: a response with status 200 whose body holds "checking your browser" in
\* any letter case is classified blocked and not success, and neither the mode
\* handler (no match is recorded) nor the link extractor (no link is crawled)
\* runs on it: the goroutine stores the link as blocked and returns.
C5_ChallengeIsBlocked ==
    [][\A link \in URLS : \A k \in Instances :
         (Handles(link, k) /\ ChallengeBody(ctask[link][k].resp)) =>
            /\ fetchPage(ctask[link][k].resp).blocked
            /\ ~fetchPage(ctask[link][k].resp).success
            /\ ctask'[link][k].pc = "idle"
            /\ stats'.MatchesFound = stats.MatchesFound
            /\ admitted' = admitted /\ visited' = visited
            /\ link \in Keys(blockedQueue')]_vars

\* the start page was answered with the challenge page: it is queued as
\* blocked, nothing was matched and none of its links was queued
C5_Witness ==
    /\ mainPC = "wait"
    /\ \E p \in blockedQueue :
         p.URL = StartURL /\ p.LastError = Err("bot protection detected", 0)
    /\ stats.MatchesFound = 0
    /\ stats.PagesQueued = 1

\* C6: when the fetch of a link by a goroutine of crawl returns status 403,
\* then on return of fetchWithRetry the blocked queue holds an entry for the
\* link with Attempts = 0, ErrorCount is unchanged and BlockedCount is one more.
C6_ForbiddenIsQueued ==
    [][\A link \in URLS : \A k \in Instances :
         (/\ Handles(link, k)
          /\ ctask[link][k].resp.neterr = ""
          /\ ctask[link][k].resp.status = 403) =>
            /\ ctask'[link][k].pc = "idle"
            /\ \E p \in blockedQueue' : p.URL = link /\ p.Attempts = 0
            /\ stats'.ErrorCount = stats.ErrorCount
            /\ stats'.BlockedCount = stats.BlockedCount + 1]_vars

\* /x#frag2 was answered 403 in the primary phase
C6_Witness ==
    /\ PrimaryPhase
    /\ BlockedPage(X2, 0, Err("blocked", 403)) \in blockedQueue
    /\ stats.BlockedCount = 1
    /\ stats.ErrorCount = 0

\* C7: once an attempt of fetchWithRetry is classified blocked, fetchWithRetry
\* returns: no further attempt is made for the link in that invocation,
\* RetryCount and PagesChecked are not incremented by it again however many
\* retries remain, and the link is in the blocked queue.
C7_BlockedEndsRetryLoop ==
    [][\A link \in URLS : \A k \in Instances :
         (Handles(link, k) /\ fetchPage(ctask[link][k].resp).blocked) =>
            /\ ctask'[link][k].pc = "idle"
            /\ stats'.RetryCount = stats.RetryCount
            /\ stats'.PagesChecked = stats.PagesChecked
            /\ link \in Keys(blockedQueue')]_vars

\* /x#frag1 was blocked on its first attempt, with every retry remaining,
\* before /x#frag2 was crawled
C7_Witness ==
    /\ MaxRetries > 0
    /\ ctask[StartURL][1].pc = "links" /\ ctask[StartURL][1].idx = 3
    /\ X1 \in Keys(blockedQueue)
    /\ ctask[X1][1].pc = "idle"
    /\ stats.RetryCount = 0
    /\ stats.PagesChecked = 2

\* C8: in no reachable state is a URL in the blocked queue, or being re-fetched
\* by a goroutine of retryBlockedPages, while a goroutine of crawl for the same
\* URL has been spawned and has not returned.
C8_NeverBothRoles ==
    \A u \in URLS :
        (u \in Keys(blockedQueue) \/ rtask[u].pc # "idle") =>
            \A k \in Instances : ctask[u][k].pc = "idle"

\* C9: a blocked URL is re-fetched by retryBlockedPages at most
\* BlockedRetryPasses times in a run, and a URL whose re-fetch failed in
\* BlockedRetryPasses passes is in the blocked queue when the run ends.
C9_RetriedAtMostPassesAndKept ==
    /\ \A u \in URLS : retried[u] <= BlockedRetryPasses
    /\ mainPC = "done" =>
         \A u \in URLS : retryFailed[u] >= BlockedRetryPasses => u \in Keys(blockedQueue)

\* C10: in every reachable state BlockedRecovered <= BlockedRetried <= BlockedCount.
C10_CounterChain ==
    /\ stats.BlockedRecovered <= stats.BlockedRetried
    /\ stats.BlockedRetried <= stats.BlockedCount

(***************************************************************************)
(* Properties of the frontier of a page capture run and of a sitemap run.  *)
(***************************************************************************)
StripQuery(u) == [u EXCEPT !.query = {}]
Frontier == IF cfg.Mode = "pdf" THEN pdfVisited ELSE sitemapVisited
FrontierAdmissions ==
    IF cfg.Mode = "pdf" THEN pdfStats.PagesQueued ELSE sitemapStats.PagesFound

\* C4: with the option to ignore query parameters enabled, URLs that differ
\* only in the query string are one frontier entry: the frontier never holds
\* two of them, and /a?x=1, /a?y=2 and /a are admitted once between them.
C4_QueryVariantsOneEntry ==
    cfg.IgnoreQueryParams =>
        /\ \A u, v \in Frontier : StripQuery(u) = StripQuery(v) => u = v
        /\ FrontierAdmissions <= Cardinality({ StripQuery(u) : u \in PageKeys })

(***************************************************************************)
(* Properties of the retry pass, of link extraction, of the phases and of  *)
(* the retry loop of fetchWithRetry.                                       *)
(***************************************************************************)
\* C11: whenever the re-fetch of a blocked URL by fetchPageForRetry fails,
\* whatever the reason, the URL is in the blocked queue when its retry
\* goroutine ends.
C11_FailedRetryIsRequeued ==
    [][\A link \in URLS :
         (rtask[link].pc = "got" /\ rtask'[link].pc = "idle") =>
            link \in Keys(blockedQueue')]_vars

\* the href a goroutine's link extraction is at
HrefAt(link, idx) == Hrefs(site, link.path)[idx]

\* an href that names another host than the start URL's
CrossHost(href) == ResolveReference(StartURL, href).host # Host

\* the step moves the link extraction of a goroutine past one href
CrawlExtracts(link, k) ==
    /\ ctask[link][k].pc = "links"
    /\ ctask'[link][k].pc = "links"
    /\ ctask'[link][k].idx = ctask[link][k].idx + 1
RetryExtracts(link) ==
    /\ rtask[link].pc = "links"
    /\ rtask'[link].pc = "links"
    /\ rtask'[link].idx = rtask[link].idx + 1

\* what the step that extracts href does to the frontier and to SkippedExternal
LinkHandled(href) ==
    IF CrossHost(href)
    THEN /\ stats'.SkippedExternal = stats.SkippedExternal + 1
         /\ visited' = visited
         /\ admitted' = admitted
    ELSE /\ stats'.SkippedExternal = stats.SkippedExternal
         /\ ResolveReference(StartURL, href) \in visited'

\* C12: of the links of a fetched page only the same-host ones are admitted to
\* the frontier, and SkippedExternal goes up by exactly one for each cross-host
\* link extracted and by nothing else.
C12_OnlySameHostAdmitted ==
    [][/\ \A link \in URLS : \A k \in Instances :
            CrawlExtracts(link, k) => LinkHandled(HrefAt(link, ctask[link][k].idx))
       /\ \A link \in URLS :
            RetryExtracts(link) => LinkHandled(HrefAt(link, rtask[link].idx))
       /\ \A u \in visited' : u.host = Host
       /\ \A u \in URLS : admitted'[u] > 0 => u.host = Host
       /\ stats'.SkippedExternal # stats.SkippedExternal =>
            \/ \E link \in URLS : \E k \in Instances :
                 CrawlExtracts(link, k) /\ CrossHost(HrefAt(link, ctask[link][k].idx))
            \/ \E link \in URLS :
                 RetryExtracts(link) /\ CrossHost(HrefAt(link, rtask[link].idx))]_vars

\* the start page, which links to https://other.test/c, /x#frag1 and /x#frag2,
\* has been extracted to its end: the frontier is /, /x#frag1, /x#frag2
C12_Witness ==
    /\ site = "fragments"
    /\ ctask[StartURL][1].pc = "links" /\ ctask[StartURL][1].idx = 4
    /\ visited = {StartURL, X1, X2}
    /\ admitted[ExternalURL] = 0
    /\ stats.SkippedExternal = 1

\* C13: the phases are strictly ordered: no goroutine of retryBlockedPages
\* exists before every goroutine of the primary phase has returned, and a pass
\* begins, and the run ends, only when every goroutine started before (retry
\* goroutines and the crawl goroutines their link extraction spawned) has
\* returned.
C13_PhasesOrdered ==
    /\ PrimaryPhase => \A u \in URLS : rtask[u].pc = "idle"
    /\ (\E u \in URLS : rtask[u].pc # "idle") => mainPC \in {"range", "waitpass"}
    /\ mainPC \in {"pass", "done"} => Running = 0 /\ wg = 0 /\ sema = 0

\* the second pass is about to begin, after a first pass in which the link
\* extraction of a retry goroutine spawned a crawl goroutine
C13_Witness ==
    /\ mainPC = "pass" /\ pass = 2
    /\ Keys(blockedQueue) # {}
    /\ \E u \in URLS : admitted[u] = 2 /\ retried[u] = 1

\* Start returns, with nothing left running
StartReturned ==
    /\ mainPC = "done"
    /\ Running = 0 /\ wg = 0 /\ sema = 0
    /\ \A u \in URLS : rtask[u].pc = "idle"
    /\ config.RetryBlockedPages =>
         (Keys(blockedQueue) = {} \/ pass > BlockedRetryPasses)

\* the Go scheduler runs every goroutine that can take a step
FairSpec == Spec /\ WF_vars(Next)

\* C14: on a finite site, with MaxConcurrency >= 1 and fair scheduling, Start
\* eventually returns: the primary phase has drained, the blocked queue is empty
\* or BlockedRetryPasses passes have run, and no goroutine is left waiting on
\* the semaphore or counted by the wait group.
C14_StartReturns == <>StartReturned

\* Start has returned after its last pass with a URL still blocked
C14_Witness ==
    /\ StartReturned
    /\ pass = BlockedRetryPasses + 1
    /\ Keys(blockedQueue) # {}
    /\ stats.BlockedRetried >= BlockedRetryPasses

\* the step begins an attempt of fetchWithRetry
StartsAttempt(link, k) == ctask[link][k].pc = "fetch" /\ ctask'[link][k].pc = "got"

\* C15: fetchWithRetry makes at most MaxRetries + 1 attempts for a URL (they
\* are numbered from 0), and RetryCount goes up by exactly one at each attempt
\* after the first and at nothing else.
C15_AttemptsBounded ==
    [][/\ \A link \in URLS : \A k \in Instances : ctask'[link][k].attempt <= MaxRetries
       /\ \A link \in URLS : \A k \in Instances :
            StartsAttempt(link, k) =>
               stats'.RetryCount =
                  stats.RetryCount + (IF ctask[link][k].attempt > 0 THEN 1 ELSE 0)
       /\ stats'.RetryCount # stats.RetryCount =>
            \E link \in URLS : \E k \in Instances :
               StartsAttempt(link, k) /\ ctask[link][k].attempt > 0]_vars

\* the last attempt for the start URL has its response, after MaxRetries retries
C15_Witness ==
    /\ MaxRetries > 0
    /\ ctask[StartURL][1].pc = "got"
    /\ ctask[StartURL][1].attempt = MaxRetries
    /\ stats.RetryCount = MaxRetries
    /\ stats.PagesChecked = MaxRetries + 1

\* an HTTP status >= 400 other than 403, 503 and 429
OrdinaryFailure(r) == r.neterr = "" /\ r.status >= 400 /\ r.status \notin {403, 503, 429}

C17_NoSuchHostAbandons ==
    [][\A link \in URLS : \A k \in Instances :
         (Handles(link, k) /\ ctask[link][k].resp.neterr = "no such host") =>
            /\ ctask'[link][k].pc = "idle"
            /\ stats'.ErrorCount = stats.ErrorCount + 1
            /\ stats'.RetryCount = stats.RetryCount
            /\ stats'.PagesChecked = stats.PagesChecked
            /\ blockedQueue' = blockedQueue]_vars

\* the only attempt for /x#frag1 failed with "no such host", with every retry
\* remaining, before /x#frag2 was crawled
C17_Witness ==
    /\ MaxRetries > 0
    /\ ctask[StartURL][1].pc = "links" /\ ctask[StartURL][1].idx = 3
    /\ ctask[X1][1].pc = "idle"
    /\ stats.PagesChecked = 2
    /\ stats.RetryCount = 0
    /\ stats.ErrorCount = 1
    /\ Keys(blockedQueue) = {}

\* C18: for a URL whose fetchWithRetry ends without success and without a
\* blocked classification, ErrorCount goes up by exactly one, when the
\* goroutine gives up and not at each failed attempt; BlockedCount and
\* MatchesFound are unchanged and the goroutine returns, releasing its slot
\* and the wait group.
C18_ExhaustedCountsOnce ==
    [][\A link \in URLS : \A k \in Instances :
         (/\ Handles(link, k)
          /\ ~fetchPage(ctask[link][k].resp).success
          /\ ~fetchPage(ctask[link][k].resp).blocked) =>
            /\ stats'.BlockedCount = stats.BlockedCount
            /\ stats'.MatchesFound = stats.MatchesFound
            /\ blockedQueue' = blockedQueue
            /\ IF ctask'[link][k].pc = "idle"
               THEN /\ stats'.ErrorCount = stats.ErrorCount + 1
                    /\ sema' = sema - 1
                    /\ wg' = wg - 1
               ELSE /\ ctask'[link][k].pc = "fetch"
                    /\ stats'.ErrorCount = stats.ErrorCount]_vars

\* every attempt for the start URL failed with 404: one error for
\* MaxRetries + 1 attempts, and the goroutine has returned
C18_Witness ==
    /\ MaxRetries > 0
    /\ mainPC = "wait"
    /\ ctask[StartURL][1].pc = "idle"
    /\ stats.PagesChecked = MaxRetries + 1
    /\ stats.RetryCount = MaxRetries
    /\ stats.ErrorCount = 1
    /\ stats.BlockedCount = 0
    /\ wg = 0 /\ sema = 0

C20_CancelledRunFinishes ==
    (cfg.Mode = "pdf" /\ cancelRequested = 1) ~> (enginePC = "done")

\* the cancelled run has drained and the statistics goroutine is stopped:
\* StartPDFCapture is at stopKeyListener <- true, which nothing receives
C20_Witness ==
    /\ cfg.Mode = "pdf"
    /\ cancelRequested = 1
    /\ enginePC = "stopkeys"
    /\ pdfWg = 0

(***************************************************************************)
(* Properties of the path filter.                                          *)
(***************************************************************************)
\* the path is the filter's or under it
UnderFilter(u) ==
    cfg.PathFilter = << >> \/ HasPrefix(WithSlash(u.path), WithSlash(cfg.PathFilter))

\* the pages a goroutine of the run was spawned for and has not returned
FrontierTasks ==
    IF cfg.Mode = "pdf" THEN { u \in PageKeys : pdfTask[u] # "idle" }
    ELSE { u \in PageKeys : sitemapTask[u] # "idle" }

\* C21: when a path filter is configured, in a capture run and in a sitemap
\* run alike, no URL whose path is not under the filter is admitted to the
\* frontier or fetched.
C21_FilterRestrictsFrontier ==
    /\ \A u \in Frontier : UnderFilter(u)
    /\ \A u \in FrontierTasks : UnderFilter(u)

\* C21 in a capture run alone
C21_CaptureFilterRestrictsFrontier ==
    cfg.Mode = "pdf" => C21_FilterRestrictsFrontier

(***************************************************************************)
(* Properties of the counters and of the requests of a search run.         *)
(***************************************************************************)
\* C22: every counter of stats is monotonically non-decreasing from the
\* start of the run to its end: no step of the crawl (fetch, retry, block,
\* recovery, link extraction, result write) decreases one.
C22_CountersMonotone ==
    [][\A c \in DOMAIN stats : stats'[c] >= stats[c]]_vars

\* a run in which a fetch was retried, a page was blocked and recovered, a
\* result was written, an external link was skipped and an error was counted
C22_Witness ==
    /\ stats.RetryCount >= 1
    /\ stats.BlockedCount >= 1
    /\ stats.BlockedRecovered >= 1
    /\ stats.MatchesFound >= 1
    /\ stats.SkippedExternal >= 1
    /\ stats.ErrorCount >= 1

\* C23: a request of fetchPage carries a Referer header only if some fetch of
\* the run has already succeeded: a request built while successfulHit is unset
\* has none, a request built after it is set has one, and successfulHit is set
\* only by a goroutine whose fetch succeeded.
C23_RefererOnlyAfterSuccess ==
    [][/\ \A link \in URLS : \A k \in Instances :
            StartsAttempt(link, k) => ctask'[link][k].referer = successfulHit
       /\ \A link \in URLS : \A k \in Instances :
            ctask'[link][k].referer => successfulHit'
       /\ successfulHit => successfulHit'
       /\ (successfulHit' /\ ~successfulHit) =>
            \E link \in URLS : \E k \in Instances :
               /\ ctask[link][k].pc = "links"
               /\ ctask'[link][k].pc = "idle"
               /\ stats.MatchesFound >= 1]_vars

\* the request for /x#frag2 was built with a Referer, after the request for
\* the start URL was built without one and its fetch succeeded
C23_Witness ==
    /\ PrimaryPhase
    /\ successfulHit
    /\ ctask[StartURL][1].pc = "idle"
    /\ ctask[X2][1].pc = "got" /\ ctask[X2][1].referer
    /\ \E k \in Instances : ctask[X1][k].pc = "got" /\ ~ctask[X1][k].referer

\* the step ends a goroutine that holds a slot
CrawlEnds(link, k) == HoldsSlot(ctask[link][k]) /\ ctask'[link][k].pc = "idle"
RetryEnds(link) == HoldsSlot(rtask[link]) /\ rtask'[link].pc = "idle"

PDFHoldsSlot(u) == pdfTask[u] = "run"

\* the capture engine releases its slots in the same way, after a cancel too
CaptureSlotsReleased ==
    /\ pdfSema = Cardinality({ u \in PageKeys : PDFHoldsSlot(u) })
    /\ pdfWg = Cardinality({ u \in PageKeys : pdfTask[u] # "idle" })
    /\ pdfWg = 0 => pdfSema = 0

\* C25: within one run no URL is successfully fetched and handed to the mode
\* handler more than once, in the primary phase and all retry passes together:
\* the result file holds at most one row for a page, and MatchesFound is the
\* number of its rows.
C25_OneRowPerPage ==
    /\ \A u \in URLS : resultFile[u] <= 1
    /\ stats.MatchesFound = SumOver(resultFile, URLS)

\* MatchesFound is the number of rows of the result file
RowsCounted == stats.MatchesFound = SumOver(resultFile, URLS)

(***************************************************************************)
(* The classification of fetchPage, on a site of one page without links    *)
(* whose server answers with any combination of network error, status and  *)
(* body.                                                                   *)
(***************************************************************************)
ClassifyErrors == {"", "timeout"}
ClassifyStatuses == {200, 301, 403, 404, 429, 500, 503}
ClassifyBodies ==
    { {"hello"}, {"Checking Your Browser"}, {"captcha"}, {"Cloudflare", "Ray ID"},
      {"Cloudflare"}, {"Ray ID"} }

ClassifyResponses ==
    { Resp(e, st, "text/html", "none", FALSE, b) :
        e \in ClassifyErrors, st \in ClassifyStatuses, b \in ClassifyBodies }

InitClassify ==
    /\ cfg = [Mode |-> "search", IgnoreQueryParams |-> FALSE, PathFilter |-> << >>]
    /\ FrontierInit
    /\ site = "single"
    /\ config = [AltEntryPoints |-> << >>, RetryBlockedPages |-> FALSE,
                 BlockedRetryPasses |-> BlockedRetryPasses, MaxRetries |-> MaxRetries]
    /\ SearchInit
    /\ ParserInit

NextClassify ==
    \/ StartCrawlStartURL
    \/ WaitPrimary
    \/ PassLoop
    \/ \E link \in URLS : \E k \in Instances : Acquire(link, k)
    \/ \E link \in URLS : \E k \in Instances : \E r \in ClassifyResponses :
            Respond(link, k, r)
    \/ \E link \in URLS : \E k \in Instances : FetchSuccess(link, k)
    \/ \E link \in URLS : \E k \in Instances : FetchBlocked(link, k)
    \/ \E link \in URLS : \E k \in Instances : FetchError(link, k)
    \/ \E link \in URLS : \E k \in Instances : FinishSuccess(link, k)

SpecClassify == InitClassify /\ [][NextClassify]_vars

\* the outcome a (success, blocked, err) triple stands for
Outcome(res) ==
    IF res.success THEN "Success" ELSE IF res.blocked THEN "Blocked" ELSE "RetryableError"

\* the phrases of a body, in lower case
Lower(body) == { ToLower(phrase) : phrase \in body }

\* a body with a bot-challenge signature: one of the listed phrases, or
\* "cloudflare" together with "ray id"
HasSignature(body) ==
    \/ Lower(body) \cap {"checking your browser", "ddos protection", "captcha",
                         "incapsula", "perimeterx", "sucuri", "attention required",
                         "sorry, you have been blocked"} # {}
    \/ {"cloudflare", "ray id"} \subseteq Lower(body)

\* a body with one of "cloudflare" and "ray id" and not the other
OneOfPair(body) == Cardinality(Lower(body) \cap {"cloudflare", "ray id"}) = 1

\* the reference precedence function
Reference(r) ==
    IF r.neterr # "" THEN "RetryableError"
    ELSE IF r.status \in {403, 503, 429} THEN "Blocked"
    ELSE IF r.status >= 400 THEN "RetryableError"
    ELSE IF HasSignature(r.body) THEN "Blocked"
    ELSE "Success"

\* what the step that handles the response of (link, k) does with the link
Handled(link, k) ==
    IF ctask'[link][k].pc = "links" THEN "Success"
    ELSE IF link \in Keys(blockedQueue') /\ ctask'[link][k].pc = "idle" THEN "Blocked"
    ELSE "RetryableError"

\* C26: the outcome of fetchPage is that of the reference precedence function
\* for every combination of network error, status code and body signature: a
\* network error is a retryable error; else 403, 503 and 429 are blocked
\* whatever the body; else any other status >= 400 is a retryable error even
\* with a challenge body; else a challenge body is blocked; else success.
\* (Bodies with one of "cloudflare" and "ray id" alone are the matter of C27.)
C26_ClassificationPrecedence ==
    [][\A link \in URLS : \A k \in Instances :
         (Handles(link, k) /\ ~OneOfPair(ctask[link][k].resp.body)) =>
            /\ Outcome(fetchPage(ctask[link][k].resp)) = Reference(ctask[link][k].resp)
            /\ Handled(link, k) = Reference(ctask[link][k].resp)]_vars

\* the first attempt ended in a retryable error (nothing is queued), and the
\* second has a 403 with a body without signature, which is to be blocked
C26_Witness ==
    /\ site = "single"
    /\ ctask[StartURL][1].pc = "got"
    /\ ctask[StartURL][1].attempt = 1
    /\ ctask[StartURL][1].resp.status = 403
    /\ ~HasSignature(ctask[StartURL][1].resp.body)
    /\ Keys(blockedQueue) = {}

\* C27: "cloudflare" in a body counts as a bot-challenge signature only
\* together with "ray id": a status-200 body with "cloudflare" and without
\* "ray id" (and without any other listed signature) is classified success,
\* and so is a body with "ray id" alone.
C27_CloudflareNeedsRayId ==
    [][\A link \in URLS : \A k \in Instances :
         (/\ Handles(link, k)
          /\ ctask[link][k].resp.neterr = ""
          /\ ctask[link][k].resp.status = 200
          /\ OneOfPair(ctask[link][k].resp.body)
          /\ ~HasSignature(ctask[link][k].resp.body)) =>
            /\ fetchPage(ctask[link][k].resp).success
            /\ ctask'[link][k].pc = "links"]_vars

(***************************************************************************)
(* Link extraction on the site "nested", without retry passes.             *)
(***************************************************************************)
InitNested ==
    /\ cfg = [Mode |-> "search", IgnoreQueryParams |-> FALSE, PathFilter |-> << >>]
    /\ FrontierInit
    /\ site = "nested"
    /\ config = [AltEntryPoints |-> << >>, RetryBlockedPages |-> FALSE,
                 BlockedRetryPasses |-> BlockedRetryPasses, MaxRetries |-> MaxRetries]
    /\ SearchInit
    /\ ParserInit

NextNested ==
    \/ StartCrawlStartURL
    \/ WaitPrimary
    \/ PassLoop
    \/ \E link \in URLS : \E k \in Instances : Acquire(link, k)
    \/ \E link \in URLS : \E k \in Instances : \E r \in ServerResponses(link.path) :
            Respond(link, k, r)
    \/ \E link \in URLS : \E k \in Instances : FetchSuccess(link, k)
    \/ \E link \in URLS : \E k \in Instances : FetchBlocked(link, k)
    \/ \E link \in URLS : \E k \in Instances : FetchError(link, k)
    \/ \E link \in URLS : \E k \in Instances : CrawlLink(link, k)
    \/ \E link \in URLS : \E k \in Instances : FinishSuccess(link, k)

SpecNested == InitNested /\ [][NextNested]_vars

\* a relative reference with a path: no scheme, no host
RelativeHref(href) == href.scheme = "" /\ href.host = "" /\ href.path # << >>

\* C28: a relative href is resolved against the URL of the page it was found
\* on: the step that extracts it admits the URL it names from that page, so
\* "other" found on /dir/page is enqueued as /dir/other.
C28_ResolvedAgainstOwnPage ==
    [][\A link \in URLS : \A k \in Instances :
         (CrawlExtracts(link, k) /\ RelativeHref(HrefAt(link, ctask[link][k].idx))) =>
            ResolveReference(link, HrefAt(link, ctask[link][k].idx)) \in visited']_vars

\* what extractInternalLinks does with "other" on /dir/page: /other is in the
\* frontier and /dir/other is not
C28_ResolvedAgainstStartURL ==
    /\ Abs(<<"", "other">>, {}, "") \in visited
    /\ Abs(<<"", "dir", "other">>, {}, "") \notin visited

\* a mailto:, tel: or javascript: href, or one that is only a fragment
NeverFollowed(href) ==
    \/ href.scheme \in {"mailto", "tel", "javascript"}
    \/ href.scheme = "" /\ href.host = "" /\ href.path = << >> /\ href.query = {}
         /\ href.frag # ""

\* C29: a mailto:, tel:, javascript: or fragment-only href is never enqueued:
\* the step that extracts it admits no URL to the frontier and spawns no fetch.
C29_SpecialHrefsNotEnqueued ==
    [][\A link \in URLS : \A k \in Instances :
         (CrawlExtracts(link, k) /\ NeverFollowed(HrefAt(link, ctask[link][k].idx))) =>
            /\ visited' = visited
            /\ admitted' = admitted
            /\ wg' = wg
            /\ stats'.PagesQueued = stats.PagesQueued]_vars

\* the part of C29 about the scheme check: mailto:, tel: and javascript:
\* hrefs are passed over
C29_OtherSchemesNotEnqueued ==
    [][\A link \in URLS : \A k \in Instances :
         (CrawlExtracts(link, k)
            /\ HrefAt(link, ctask[link][k].idx).scheme \in {"mailto", "tel", "javascript"}) =>
            /\ visited' = visited
            /\ admitted' = admitted
            /\ wg' = wg]_vars

\* "#top" on /contact has been enqueued as the start URL under a fragment
C29_FragmentOnlyEnqueued == Abs(<<"", "">>, {}, "top") \in visited

\* the step is the return of fetchWithRetry(link) on a blocked classification
\* while an entry for link is in the blocked queue
BlockedOverQueued(link, k) ==
    /\ Handles(link, k)
    /\ fetchPage(ctask[link][k].resp).blocked
    /\ ctask'[link][k].pc = "idle"
    /\ link \in Keys(blockedQueue)

\* C30: the fetcher only inserts entries into the blocked queue: a blocked
\* classification in fetchWithRetry leaves the Attempts count of an entry that
\* is already queued for the link as it was.
C30_FetcherKeepsAttempts ==
    [][\A link \in URLS : \A k \in Instances :
         BlockedOverQueued(link, k) =>
            /\ link \in Keys(blockedQueue')
            /\ Load(blockedQueue', link).Attempts = Load(blockedQueue, link).Attempts]_vars

\* an entry the retry pass has put back after a failed re-fetch is queued for
\* a link whose fetchWithRetry is about to return blocked
C30_RequeuedEntryOverwritten ==
    \E link \in URLS : \E k \in Instances :
        /\ ctask[link][k].pc = "got"
        /\ fetchPage(ctask[link][k].resp).blocked
        /\ link \in Keys(blockedQueue)
        /\ Load(blockedQueue, link).Attempts > 0

(***************************************************************************)
(* Seeding, the visited set and the retry passes.                          *)
(***************************************************************************)
\* the step is one of Start's seeding statements
StartSeeds == mainPC \in {"seed", "preseed"} /\ (mainPC' # mainPC \/ entryIdx' # entryIdx)

\* Phase 2 begins: Phase 1's wg.Wait has returned and no pass has run
Phase2Begins == mainPC = "pass" /\ pass = 1

\* C31: with alternative entry points Start seeds Phase 1 with them and not
\* with the start URL, and the start URL is in the blocked queue with Attempts
\* 0 when Phase 2 begins; without them the start URL is the only seed and
\* nothing is stored in the blocked queue by Start.
C31_SeedsAndPreSeed ==
    [][/\ (~Phase2Begins /\ Phase2Begins' /\ config.AltEntryPoints # << >>) =>
             /\ StartURL \in Keys(blockedQueue')
             /\ Load(blockedQueue', StartURL).Attempts = 0
       /\ StartSeeds =>
            IF config.AltEntryPoints # << >>
            THEN IF mainPC = "seed"
                 THEN /\ visited' = visited \cup {config.AltEntryPoints[entryIdx]}
                      /\ StartURL \notin visited' \ visited
                      /\ blockedQueue' = blockedQueue
                 ELSE /\ visited' = visited
                      /\ wg' = wg
                      /\ StartURL \in Keys(blockedQueue')
                      /\ Load(blockedQueue', StartURL).Attempts = 0
            ELSE /\ visited' = {StartURL}
                 /\ wg' = 1
                 /\ blockedQueue' = {}]_vars

\* Phase 2 begins in a run with an alternative entry point: the entry point
\* was admitted and the start URL is queued
C31_Witness ==
    /\ Phase2Begins
    /\ config.AltEntryPoints = <<AltURL>>
    /\ AltURL \in visited
    /\ StartURL \in Keys(blockedQueue)

\* C32: in the primary phase the visited set only grows, and afterwards a URL
\* leaves it only in the step of a retry pass that evicts the blocked-queue
\* entry of that URL.
C32_VisitedOnlyGrowsInPhase1 ==
    [][/\ PrimaryPhase => visited \subseteq visited'
       /\ \A u \in visited \ visited' :
            /\ mainPC = "range"
            /\ u \in Keys(blockedQueue) \ Keys(blockedQueue')
            /\ visited \ visited' = {u}]_vars

\* a retry pass has evicted a URL, beside another URL that stays visited
C32_Witness ==
    /\ ~PrimaryPhase
    /\ \E u \in URLS : retried[u] > 0 /\ u \notin visited
    /\ visited # {}

\* the step is the return of a successful fetchPageForRetry(link)
RetrySucceeds(link) == rtask[link].pc = "links" /\ rtask'[link].pc = "idle"

\* C33: a successful re-fetch of a retry pass counts one in BlockedRecovered
\* and leaves the URL in visited and out of the blocked queue.
C33_RecoveredIsVisitedNotQueued ==
    [][\A link \in URLS :
         RetrySucceeds(link) =>
            /\ stats'.BlockedRecovered = stats.BlockedRecovered + 1
            /\ link \in visited'
            /\ link \notin Keys(blockedQueue')]_vars

\* the parts of C33 about the counter, the visited set and the handler: the
\* return counts one and stores the URL in visited, and the step that hands
\* the body to the mode handler writes the rows a primary success writes
C33_RecoveredIsCountedAndVisited ==
    [][\A link \in URLS :
         /\ RetrySucceeds(link) =>
              /\ stats'.BlockedRecovered = stats.BlockedRecovered + 1
              /\ link \in visited'
         /\ (rtask[link].pc = "got" /\ rtask'[link].pc = "links") =>
              resultFile' = writeSearchResult(link, SearchMatches(rtask[link].resp))]_vars

\* a recovered URL is in the blocked queue when its re-fetch returns
C33_RecoveredStillQueued ==
    \E link \in URLS :
        /\ rtask[link].pc = "links"
        /\ rtask[link].idx > Len(Hrefs(site, link.path))
        /\ link \in Keys(blockedQueue)

(***************************************************************************)
(* A run with the retry configuration main passes to Start, on a site of   *)
(* one page without links.                                                 *)
(***************************************************************************)
\* BlockedRetryPasses of the Config main builds
ShippedRetryPasses == 3

\* MaxRetries of the Config main builds when the prompt is left empty
ShippedMaxRetries == 3

InitShipped ==
    /\ cfg = [Mode |-> "search", IgnoreQueryParams |-> FALSE, PathFilter |-> << >>]
    /\ FrontierInit
    /\ site = "single"
    /\ config = [AltEntryPoints |-> << >>, RetryBlockedPages |-> TRUE,
                 BlockedRetryPasses |-> ShippedRetryPasses,
                 MaxRetries |-> ShippedMaxRetries]
    /\ SearchInit
    /\ ParserInit

NextShipped ==
    \/ StartCrawlStartURL
    \/ WaitPrimary
    \/ PassLoop
    \/ \E pageURL \in URLS : RangeVisit(pageURL)
    \/ RangeReturn
    \/ WaitPass
    \/ \E link \in URLS : \E k \in Instances : Acquire(link, k)
    \/ \E link \in URLS : \E k \in Instances : \E r \in ServerResponses(link.path) :
            Respond(link, k, r)
    \/ \E link \in URLS : \E k \in Instances : FetchSuccess(link, k)
    \/ \E link \in URLS : \E k \in Instances : FetchBlocked(link, k)
    \/ \E link \in URLS : \E k \in Instances : FetchError(link, k)
    \/ \E link \in URLS : \E k \in Instances : FinishSuccess(link, k)
    \/ \E link \in URLS : AcquireRetry(link)
    \/ \E link \in URLS : \E r \in ServerResponses(link.path) : RetryRespond(link, r)
    \/ \E link \in URLS : RetryFetchOK(link)
    \/ \E link \in URLS : RetryFetchFail(link)
    \/ \E link \in URLS : FinishRetry(link)

SpecShipped == InitShipped /\ [][NextShipped]_vars

\* the step sends the request of a re-fetch of a retry pass
SendsRetry(link) == rtask[link].pc = "fetch" /\ rtask'[link].pc = "got"

\* C34: every re-fetch of a retry pass carries the Referer header and a
\* User-Agent other than the one of the first primary attempt (index 0), for
\* every retry attempt number of the shipped configuration.
C34_RetryAgentDiffers ==
    [][\A link \in URLS :
         SendsRetry(link) =>
            /\ rtask'[link].referer
            /\ rtask'[link].ua # primaryAgent(0)]_vars

\* the part of C34 about the Referer header, and the agents of the retry
\* attempts 1 and 2
C34_RetryHasReferer ==
    [][\A link \in URLS :
         SendsRetry(link) =>
            /\ rtask'[link].referer
            /\ rtask[link].attempt < ShippedRetryPasses =>
                 rtask'[link].ua # primaryAgent(0)]_vars

\* the re-fetch of the third pass is sent with the agent of index 0
C34_ThirdPassUsesFirstAgent ==
    \E link \in URLS :
        /\ rtask[link].pc = "got"
        /\ rtask[link].attempt = ShippedRetryPasses
        /\ rtask[link].ua = userAgents[1]

\* the step is the sleep of fetchWithRetry before the retry it starts
SleepsBeforeRetry(link, k) ==
    ctask[link][k].pc = "got" /\ ctask'[link][k].pc = "fetch"

\* RetryDelay * n(n+1)/2
LinearTotal(n) == (RetryDelay * n * (n + 1)) \div 2

PDFBodies == { PDF(TRUE, {Target}), PDF(TRUE, {"hello"}), PDF(FALSE, {}) }

\* os.WriteFile(tmpPDF, buf, 0644)
WriteTmpPDF(w) ==
    /\ pdfSearch[w].pc = "call"
    /\ tmpPDF' = File(pdfSearch[w].body)
    /\ pdfSearch' = [pdfSearch EXCEPT ![w].pc = "written"]
    /\ UNCHANGED << outDir, searchVars, cfg, enginePC, pdfVars, sitemapVars >>

\* os.MkdirAll(outDir) and pdfcpu extract -mode text tmpPDF outDir: pdfcpu reads
\* the file that is at the path now; when it fails the paths are removed and
\* the call returns false
RunPdfcpu(w) ==
    /\ pdfSearch[w].pc = "written"
    /\ IF tmpPDF # NoFile /\ tmpPDF[1].valid
       THEN /\ outDir' = Dir({tmpPDF[1].text})
            /\ pdfSearch' = [pdfSearch EXCEPT ![w].pc = "extracted"]
            /\ UNCHANGED tmpPDF
       ELSE /\ outDir' = NoDir
            /\ tmpPDF' = NoFile
            /\ pdfSearch' = [pdfSearch EXCEPT ![w].pc = "done", ![w].found = FALSE]
    /\ UNCHANGED << searchVars, cfg, enginePC, pdfVars, sitemapVars >>

\* filepath.Walk(outDir, ...): found is set when a .txt file under outDir
\* contains the target; a missing directory is passed over
WalkOutDir(w) ==
    /\ pdfSearch[w].pc = "extracted"
    /\ pdfSearch' = [pdfSearch EXCEPT
                        ![w].pc = "walked",
                        ![w].found = (outDir.exists /\ \E data \in outDir.files : Target \in data)]
    /\ UNCHANGED << tmpPDF, outDir, searchVars, cfg, enginePC, pdfVars, sitemapVars >>

\* os.RemoveAll(outDir), os.Remove(tmpPDF), return found
CleanupAndReturn(w) ==
    /\ pdfSearch[w].pc = "walked"
    /\ outDir' = NoDir
    /\ tmpPDF' = NoFile
    /\ pdfSearch' = [pdfSearch EXCEPT ![w].pc = "done"]
    /\ UNCHANGED << searchVars, cfg, enginePC, pdfVars, sitemapVars >>

\* every worker is about to call ContainsLinkInPDF on a body of its own
InitPDFSearch ==
    /\ cfg = [Mode |-> "search", IgnoreQueryParams |-> FALSE, PathFilter |-> << >>]
    /\ FrontierInit
    /\ site = "single"
    /\ config = [AltEntryPoints |-> << >>, RetryBlockedPages |-> FALSE,
                 BlockedRetryPasses |-> BlockedRetryPasses, MaxRetries |-> MaxRetries]
    /\ SearchInit
    /\ tmpPDF = NoFile
    /\ outDir = NoDir
    /\ pdfSearch \in [PDFWorkers -> [pc : {"call"}, body : PDFBodies, found : {FALSE}]]

NextPDFSearch ==
    \/ \E w \in PDFWorkers : WriteTmpPDF(w)
    \/ \E w \in PDFWorkers : RunPdfcpu(w)
    \/ \E w \in PDFWorkers : WalkOutDir(w)
    \/ \E w \in PDFWorkers : CleanupAndReturn(w)

SpecPDFSearch == InitPDFSearch /\ [][NextPDFSearch]_vars

\* what ContainsLinkInPDF returns for a body when no other call is under way
SearchedAlone(body) == body.valid /\ Target \in body.text

\* C36: the result of the PDF text search of a page depends only on the body
\* of that page and the target: with several workers searching at once, each
\* call returns what it would return alone.
C36_ResultOfOwnBody ==
    \A w \in PDFWorkers :
        pdfSearch[w].pc = "done" => pdfSearch[w].found = SearchedAlone(pdfSearch[w].body)

\* a call on a PDF that holds the target has returned false
C36_MatchLost ==
    \E w \in PDFWorkers :
        /\ pdfSearch[w].pc = "done"
        /\ SearchedAlone(pdfSearch[w].body)
        /\ ~pdfSearch[w].found

\* a call on a PDF without the target has returned true
C36_MatchOfAnotherBody ==
    \E w \in PDFWorkers :
        /\ pdfSearch[w].pc = "done"
        /\ ~SearchedAlone(pdfSearch[w].body)
        /\ pdfSearch[w].found

\* the step is the call of retryBlockedPages of a pass
PassStarts == mainPC = "pass" /\ mainPC' = "range"

\* the step is one call of the function retryBlockedPages hands to Range
RangeVisits(u) == mainPC = "range" /\ u \in rangeSeen' \ rangeSeen

\* C37: when retry pass p starts every entry of the blocked queue has Attempts
\* <= p - 1, so the guard Attempts >= BlockedRetryPasses skips no entry: every
\* entry the pass enumerates is deleted and re-fetched in that pass.
C37_NoEntrySkipped ==
    [][/\ PassStarts =>
            /\ 1 <= pass /\ pass <= config.BlockedRetryPasses
            /\ \A page \in blockedQueue : page.Attempts <= pass - 1
       /\ \A u \in URLS :
            RangeVisits(u) =>
               /\ ~RetrySkips(Load(blockedQueue, u))
               /\ u \notin Keys(blockedQueue')
               /\ rtask'[u].pc = "wait"
               /\ rtask'[u].attempt <= pass
               /\ stats'.BlockedRetried = stats.BlockedRetried + 1
       /\ (mainPC = "range" /\ mainPC' # "range") => rangeMust = {}]_vars

\* the last pass re-fetches an entry that an earlier pass has put back
C37_Witness ==
    /\ pass = config.BlockedRetryPasses
    /\ pass > 1
    /\ \E u \in URLS : rtask[u].pc = "wait" /\ rtask[u].attempt = pass

(***************************************************************************)
(* A sitemap run whose server answers with any of the ways a fetch of      *)
(* fetchForSitemap can end.                                                *)
(***************************************************************************)
RespPDFDocument == Resp("", 200, "application/pdf", "none", FALSE, {"hello"})
RespPleaseWait == Resp("", 200, "text/html", "none", FALSE,
                       {"Checking Your Browser", "please wait"})
RespReadError == Resp("", 200, "text/html", "none", TRUE, {})
RespBadGzip == Resp("", 200, "text/html", "bad", FALSE, {})

SitemapRunResponses ==
    { RespOK, Resp403, Resp404, RespDNS, RespPDFDocument, RespPleaseWait, RespReadError,
      RespBadGzip }

InitSitemap ==
    /\ cfg \in [Mode : {"sitemap"}, IgnoreQueryParams : {FALSE}, PathFilter : {<< >>, FilterA}]
    /\ FrontierInit
    /\ site = "fragments"
    /\ config = [AltEntryPoints |-> << >>, RetryBlockedPages |-> TRUE,
                 BlockedRetryPasses |-> BlockedRetryPasses, MaxRetries |-> MaxRetries]
    /\ SearchInit
    /\ ParserInit

NextSitemap ==
    \/ StartSitemapGeneration
    \/ \E link \in PageKeys : \E r \in SitemapRunResponses : SitemapFetch(link, r)
    \/ \E link \in PageKeys : \E nextLink \in PageLinks : SitemapCrawlLink(link, nextLink)
    \/ \E link \in PageKeys : SitemapReturn(link)
    \/ SitemapWait

SpecSitemap == InitSitemap /\ [][NextSitemap]_vars

\* sitemapWG.Wait has returned: generateSitemapFile writes the keys of sitemapURLs
SitemapGenerated == cfg.Mode = "sitemap" /\ enginePC = "done"

\* the fetch ended in a network error: the request failed, or the connection
\* failed while the body was read
EndedInNetworkError(r) == r.neterr # "" \/ (r.status < 400 /\ IsHTML(r) /\ r.readErr)

\* the fetch ended in a blocked classification: by status, or by a challenge body
EndedBlocked(r) ==
    \/ r.status \in {403, 503, 429}
    \/ r.gzip # "bad" /\ ~r.readErr /\ detectSitemapBotProtection(r.body)

\* C38: when the sitemap file is generated the sitemap URL set holds no URL
\* whose fetch ended in a network error, a status >= 400, a blocked
\* classification or a content type other than HTML, and no URL that fails
\* the path filter.
C38_SitemapHoldsFetchedPages ==
    SitemapGenerated =>
       \A u \in sitemapURLs :
           /\ ~EndedInNetworkError(sitemapResp[u])
           /\ sitemapResp[u].status < 400
           /\ ~EndedBlocked(sitemapResp[u])
           /\ IsHTML(sitemapResp[u])
           /\ IncludeInSitemap(u.path)

\* C38 for the fetches that end before the body is read, or with a body that
\* was read: failed requests, statuses, challenge bodies, content types and
\* the path filter
C38_SitemapHoldsAnsweredPages ==
    SitemapGenerated =>
       \A u \in sitemapURLs :
           /\ sitemapResp[u].neterr = ""
           /\ sitemapResp[u].status < 400
           /\ ~EndedBlocked(sitemapResp[u])
           /\ IsHTML(sitemapResp[u])
           /\ IncludeInSitemap(u.path)

\* the file is generated with a URL whose body could not be read
C38_UnreadPageInSitemap ==
    /\ SitemapGenerated
    /\ \E u \in sitemapURLs : sitemapResp[u].readErr

(***************************************************************************)
(* The URLs extractLinksForSitemap synthesizes: generateArchiveURLs and    *)
(* generatePaginationURLs.  Paths are in lower case; a year is a path      *)
(* segment of digits.                                                      *)
(***************************************************************************)
\* the longest path, in segments, that a run is followed to
MaxPathLen == 4

\* time.Now().Year()
CurrentYear == 1002

\* the list months of generateArchiveURLs, cut to its first entry
months == << "january" >>

\* the last of the pages 2..10 of generatePaginationURLs; with 1 the run
\* follows the archive URLs alone
LastPage == 1

\* strconv.Itoa and strconv.Atoi on the years and page numbers that occur
Itoa(n) ==
    CASE n = 2 -> "2"
      [] n = 999 -> "999"
      [] n = 1000 -> "1000"
      [] n = 1001 -> "1001"
      [] n = 1002 -> "1002"
Numbers == {2, 999, 1000, 1001, 1002}
IsNumber(seg) == \E n \in Numbers : Itoa(n) = seg
Atoi(seg) == CHOOSE n \in Numbers : Itoa(n) = seg

\* \d{4}: a segment of exactly four digits
FourDigits(seg) == IsNumber(seg) /\ Atoi(seg) >= 1000 /\ Atoi(seg) <= 9999

\* strings.TrimSuffix(path, "/")
TrimSlash(path) ==
    IF path # << >> /\ path[Len(path)] = "" /\ Len(path) > 1 THEN DropLast(path) ELSE path

RECURSIVE SeqToSet(_)
SeqToSet(q) == IF q = << >> THEN {} ELSE {q[1]} \cup SeqToSet(Tail(q))

\* strings.Contains(pathLower, "news") || ... || "article"
isNewsSection(path) ==
    SeqToSet(path) \cap {"news", "press", "release", "archive", "blog", "article"} # {}

\* yearPattern `/(\d{4})/?$`
yearPattern(path) ==
    LET p == TrimSlash(path) IN Len(p) >= 2 /\ FourDigits(p[Len(p)])

\* monthPattern `/(\d{4})/(january|...|december)/?$`
monthPattern(path) ==
    LET p == TrimSlash(path)
    IN  Len(p) >= 3 /\ p[Len(p)] \in SeqToSet(months) /\ FourDigits(p[Len(p) - 1])

\* strings.Replace(s, old, new, 1) on whole segments
RECURSIVE ReplaceFirst(_, _, _)
ReplaceFirst(path, old, new) ==
    IF path = << >> THEN << >>
    ELSE IF path[1] = old THEN <<new>> \o Tail(path)
    ELSE <<path[1]>> \o ReplaceFirst(Tail(path), old, new)

\* fmt.Sprintf("%s://%s%s", parsedURL.Scheme, parsedURL.Host, path)
Sprintf(u, path) == MkURL(u.scheme, u.host, path, {}, "")

\* [ f(months[i]) : i ]
MonthURLs(u, basePath) ==
    [i \in 1..Len(months) |-> Sprintf(u, basePath \o <<months[i], "">>)]

generateArchiveURLs(u) ==
    LET path == u.path
        p == TrimSlash(path)
        yearURLs ==
            IF yearPattern(path)
            THEN MonthURLs(u, p)
                 \o (IF Atoi(p[Len(p)]) = CurrentYear
                     THEN << Sprintf(u, ReplaceFirst(path, Itoa(CurrentYear),
                                                     Itoa(CurrentYear - 1))) >>
                     ELSE << >>)
            ELSE << >>
        monthURLs ==
            IF monthPattern(path)
            THEN LET year == p[Len(p) - 1]
                     basePath == DropLast(p)
                     prevYearBase == ReplaceFirst(basePath, year, Itoa(Atoi(year) - 1))
                 IN  MonthURLs(u, basePath) \o MonthURLs(u, prevYearBase)
            ELSE << >>
        recentYears ==
            IF ~yearPattern(path) /\ ~monthPattern(path)
            THEN [i \in 1..3 |-> Sprintf(u, p \o <<Itoa(CurrentYear - (i - 1)), "">>)]
            ELSE << >>
    IN  IF ~isNewsSection(path) THEN << >> ELSE yearURLs \o monthURLs \o recentYears

generatePaginationURLs(u) ==
    LET path == u.path
        isListingPage == path # << >>
        byQuery ==
            IF \A kv \in u.query : kv[1] # "page"
            THEN [i \in 1..(LastPage - 1) |->
                     [u EXCEPT !.query = @ \cup {<<"page", Itoa(i + 1)>>}]]
            ELSE << >>
        byPath ==
            IF \A i \in 1..(Len(path) - 1) : path[i] # "page"
            THEN [i \in 1..(LastPage - 1) |->
                     Sprintf(u, TrimSlash(path) \o <<"page", Itoa(i + 1), "">>)]
            ELSE << >>
    IN  IF ~isListingPage THEN << >> ELSE byQuery \o byPath

\* the links extractLinksForSitemap crawls for a page without <a> elements
extractedLinks(sourceURL) ==
    generateArchiveURLs(sourceURL) \o generatePaginationURLs(sourceURL)

\* how often the generation has run below the four-digit years and started a
\* new archive beneath the page it reached: the year segments out of \d{4}
\* that a later year segment follows
RECURSIVE Restarts(_)
Restarts(path) ==
    IF path = << >> THEN 0
    ELSE (IF IsNumber(path[1]) /\ ~FourDigits(path[1]) /\ path[1] # "2"
             /\ \E i \in 2..Len(path) : FourDigits(path[i])
          THEN 1 ELSE 0) + Restarts(Tail(path))

\* the start URL of the archive run, and the path filter main makes of it
NewsFilter == <<"", "news", "">>
NewsURL == Abs(NewsFilter, {}, "")

\* the number of segments of a path
Depth(path) == Len(TrimSlash(path)) - 1

\* the links of a page that the run follows
FollowedLinks(sourceURL) ==
    { l \in SeqToSet(extractedLinks(sourceURL)) : Depth(l.path) <= MaxPathLen }

RECURSIVE GeneratedFrom(_)
GeneratedFrom(S) ==
    LET next == S \cup { SitemapNormalized(l) : l \in UNION { FollowedLinks(u) : u \in S } }
    IN  IF next = S THEN S ELSE GeneratedFrom(next)

\* every key the archive run can store
ArchiveKeys == GeneratedFrom({NewsURL})

(***************************************************************************)
(* The sitemap run on a site whose only real page is /news/ and whose      *)
(* server answers every URL with that HTML page.                           *)
(***************************************************************************)
InitArchive ==
    /\ cfg = [Mode |-> "sitemap", IgnoreQueryParams |-> FALSE, PathFilter |-> NewsFilter]
    /\ enginePC = "start"
    /\ cancelRequested = 0
    /\ pdfVisited = {}
    /\ pdfStats = [PagesQueued |-> 0, PagesVisited |-> 0]
    /\ pdfTask = [u \in PageKeys |-> "idle"]
    /\ pdfSema = 0
    /\ pdfWg = 0
    /\ sitemapVisited = {}
    /\ sitemapURLs = {}
    /\ sitemapStats = [PagesFound |-> 0, PagesChecked |-> 0, ErrorCount |-> 0,
                       BlockedCount |-> 0, SkippedCount |-> 0]
    /\ sitemapTask = [u \in ArchiveKeys |-> "idle"]
    /\ sitemapSema = 0
    /\ sitemapWG = 0
    /\ sitemapResp = [u \in ArchiveKeys |-> NoResp]
    /\ site = "single"
    /\ config = [AltEntryPoints |-> << >>, RetryBlockedPages |-> TRUE,
                 BlockedRetryPasses |-> BlockedRetryPasses, MaxRetries |-> MaxRetries]
    /\ SearchInit
    /\ ParserInit

\* the loop of extractLinksForSitemap over the links of the page, each handed
\* to crawlForSitemap, and the return of the goroutine after it
SitemapCrawlLinks(link) ==
    LET new == { SitemapNormalized(l) : l \in FollowedLinks(link) } \ sitemapVisited
        included == { n \in new : IncludeInSitemap(n.path) }
    IN  /\ sitemapTask[link] = "run"
        /\ sitemapVisited' = sitemapVisited \cup new
        /\ sitemapURLs' = sitemapURLs \cup included
        /\ sitemapStats' =
             [sitemapStats EXCEPT !.SkippedCount = @ + Cardinality(new \ included),
                                  !.PagesFound = @ + Cardinality(new)]
        /\ sitemapTask' = [u \in DOMAIN sitemapTask |->
                              IF u \in new THEN "wait"
                              ELSE IF u = link THEN "idle" ELSE sitemapTask[u]]
        /\ sitemapSema' = sitemapSema - 1
        /\ sitemapWG' = sitemapWG + Cardinality(new) - 1
        /\ UNCHANGED << cfg, parserVars, enginePC, sitemapResp, pdfVars, searchVars >>

NextArchive ==
    \/ StartSitemapGeneration
    \/ \E link \in ArchiveKeys : SitemapFetch(link, RespOK)
    \/ \E link \in ArchiveKeys : SitemapCrawlLinks(link)
    \/ SitemapWait

SpecArchive == InitArchive /\ [][NextArchive]_vars

\* the branch of generateArchiveURLs for a section page acts on the page
SectionPage(u) ==
    isNewsSection(u.path) /\ ~yearPattern(u.path) /\ ~monthPattern(u.path)

\* C39: the sitemap crawl of a site that answers every URL with an HTML 200
\* page admits the archive of its section and no more: the generation of
\* year and month URLs does not start a new archive beneath a page it has
\* generated itself.
C39_ArchiveGenerationEnds ==
    \A u \in sitemapVisited : Restarts(u.path) = 0

\* a generated month page, its year out of four digits, is taken for a section
\* page, and the years generated beneath it are in the sitemap
C39_ArchiveRestarted ==
    \E u \in sitemapURLs : \E v \in sitemapURLs :
        /\ u # NewsURL /\ SectionPage(u) /\ sitemapResp[u] = RespOK
        /\ v \in SeqToSet(generateArchiveURLs(u))
        /\ yearPattern(v.path) /\ Restarts(v.path) = 1

====
